---------------------------- MODULE Spec2Model ----------------------------
(***************************************************************************)
(* Model of the digital twin of GPIG-Team-A/Control-Centre:                *)
(*   - Environment (tile grid, start/goals, cached route) and the Theta*   *)
(*     planner of src/digital_twin/environment.py;                         *)
(*   - RoverCommands (the command queue executor) of                       *)
(*     src/digital_twin/rover_commands.py, single-threaded and driven by   *)
(*     RoverCommandThread (src/digital_twin/threadproc.py).                *)
(*                                                                         *)
(* Numbers.  The source computes with IEEE doubles.  The model computes    *)
(* with integers: lengths in tiles scaled by Scale (fixed point), costs in *)
(* millionths, widths in millimetres, times in microseconds.  The planner  *)
(* of the model returns the same routes as the source on every 3x3 grid    *)
(* for the widths 0, 10, 24, 100 and 102 mm, and on the 4x3 grids with up  *)
(* to 4 obstacles and the 4x4 grids with up to 3 obstacles for 0, 10, 24   *)
(* and 100 mm (compared by running the source).                            *)
(***************************************************************************)
EXTENDS Integers, Sequences, FiniteSets, TLC

VARIABLES
    map,              \* Environment._map: [cell -> tile type], cell = <<x, y>>
    start,            \* Environment._start: a cell, or None
    end,              \* Environment._end: None, or <<list of goal cells>>
    start_dir,        \* Environment._start_dir (quarter turns)
    end_dir,          \* Environment._end_dir (quarter turns)
    rover,            \* Environment._rover: None or a rover id
    path,             \* Environment._path: None, or <<cached route>>
    call,             \* the last call made on the environment / planner and its outcome
    search,           \* the local state of a running pathfind call
    command_queue,    \* RoverCommands._command_queue
    current_command,  \* RoverCommands._current_command: None or <<a command>>
    vehicle,          \* the Rover the executor drives
    hist,             \* history of the executor: what was added, started, applied
    pc,               \* where the command thread and its caller are in their code
    local             \* the threads' local values

envVars   == <<map, start, end, start_dir, end_dir, rover, path, call>>
planVars  == <<search>>
cmdVars   == <<command_queue, current_command, vehicle, hist>>
thrVars   == <<pc, local>>
vars      == <<envVars, planVars, cmdVars, thrVars>>

---------------------------------------------------------------------------
(* Bounds of the model *)

GridW == 3          \* Environment(width, height): tiles per row
GridH == 3          \* tiles per column

(* Python's None.  A cell is a pair, so the empty tuple is no cell; an     *)
(* optional list is None or the one-element tuple <<list>>.                *)
None == <<>>
Some(v) == <<v>>
IsNone(v) == Len(v) = 0

---------------------------------------------------------------------------
(* Arithmetic *)

Scale == 10 * 100                  \* fixed-point unit: 1 tile = Scale
Micro == 1000 * 1000               \* costs are in millionths
Inf == 2000 * Micro                \* float("inf")

Abs(a) == IF a < 0 THEN -a ELSE a
Min2(a, b) == IF a < b THEN a ELSE b
Max2(a, b) == IF a < b THEN b ELSE a
\* floor(a / b), b > 0
FDiv(a, b) == a \div b
\* a / b rounded to the nearest integer, b > 0
RDiv(a, b) == (2 * a + b) \div (2 * b)
\* int(a / b): python's int() truncates towards zero
TDiv(a, b) ==
    LET q == Abs(a) \div Abs(b)
    IN  IF (a >= 0) = (b > 0) THEN q ELSE -q

\* np.sqrt(d2) in millionths, d2 = dx*dx + dy*dy
SqrtTab ==
    <<1000000, 1414214, 1732051, 2000000, 2236068, 2449490, 2645751, 2828427,
      3000000, 3162278, 3316625, 3464102, 3605551, 3741657, 3872983, 4000000,
      4123106, 4242641, 4358899, 4472136, 4582576, 4690416, 4795832, 4898979,
      5000000, 5099020, 5196152, 5291503, 5385165, 5477226, 5567764, 5656854,
      5744563, 5830952, 5916080, 6000000, 6082763, 6164414, 6244998, 6324555,
      6403124, 6480741, 6557439, 6633250, 6708204, 6782330, 6855655, 6928203,
      7000000, 7071068>>
SqrtMicro(d2) == IF d2 = 0 THEN 0 ELSE SqrtTab[d2]

\* np.abs(np.arctan(dy / dx)) in millionths, by |dx| in 1..5 and |dy| in 0..5
AtanTab ==
    << <<0, 785398, 1107149, 1249046, 1325818, 1373401>>,
       <<0, 463648, 785398, 982794, 1107149, 1190290>>,
       <<0, 321751, 588003, 785398, 927295, 1030377>>,
       <<0, 244979, 463648, 643501, 785398, 896055>>,
       <<0, 197396, 380506, 540420, 674741, 785398>> >>
HalfPi == 1570796                  \* np.pi / 2 in millionths
AtanMicro(dy, dx) == AtanTab[Abs(dx)][Abs(dy) + 1]

---------------------------------------------------------------------------
(* Program constants (src/digital_twin/constants.py), in millimetres and   *)
(* microseconds *)

METERS_PER_TILE == 10
DISTANCE_BETWEEN_MOTORS == 102
TIME_BETWEEN_MOVEMENTS == 1000
rays_cast == 11

---------------------------------------------------------------------------
(* The tile grid *)

EMPTY == "EMPTY"
OBSTACLE == "OBSTACLE"
IndexError == "IndexError"

Cells == {<<x, y>> : x \in 0 .. GridW - 1, y \in 0 .. GridH - 1}

\* Environment.size()
size == <<GridW, GridH>>

\* A python list of n elements accepts the indices -n .. n-1: a negative
\* index counts from the end, anything else raises IndexError.
ListIndexOk(i, n) == -n <= i /\ i < n
ListIndex(i, n) == i % n

\* Environment.get_tile(x, y): self._map[y][x]
get_tile(m, x, y) ==
    IF ListIndexOk(y, GridH) /\ ListIndexOk(x, GridW)
    THEN m[<<ListIndex(x, GridW), ListIndex(y, GridH)>>]
    ELSE IndexError

---------------------------------------------------------------------------
(* The line-of-sight test (environment.py, lines 311-401).  Points are     *)
(* pairs of fixed-point coordinates.                                       *)

\* f_x(point_1, point_2, y) under int(): the x of the line at height y
f_x(point_1, point_2, y) ==
    TDiv((point_2[1] - point_1[1]) * (y * Scale - point_1[2])
             + point_1[1] * (point_2[2] - point_1[2]),
         (point_2[2] - point_1[2]) * Scale)

\* f_y(point_1, point_2, x) under int(): the y of the line at abscissa x
f_y(point_1, point_2, x) ==
    TDiv((point_2[2] - point_1[2]) * (x * Scale - point_1[1])
             + point_1[2] * (point_2[1] - point_1[1]),
         (point_2[1] - point_1[1]) * Scale)

\* get_intersected_coordinates(point_1, point_2), as a set of tile indices
get_intersected_coordinates(point_1, point_2) ==
    LET x_min == FDiv(Min2(point_1[1], point_2[1]), Scale)
        x_max == FDiv(Max2(point_1[1], point_2[1]), Scale)
        y_min == FDiv(Min2(point_1[2], point_2[2]), Scale)
        y_max == FDiv(Max2(point_1[2], point_2[2]), Scale)
    IN  {<<x, f_y(point_1, point_2, x)>> : x \in x_min .. x_max - 1}
        \cup {<<f_x(point_1, point_2, y), y>> : y \in y_min .. y_max - 1}

\* dir_vector / magnitude, in fixed point
UnitVector(dx, dy) ==
    LET magnitude == SqrtMicro(dx * dx + dy * dy)
    IN  <<RDiv(dx * Micro, FDiv(magnitude, Scale)),
          RDiv(dy * Micro, FDiv(magnitude, Scale))>>

\* The tile indices the given ray of the test samples
RaySamples(point_1, point_2, width_val, ray) ==
    LET dir_vector == UnitVector(point_2[1] - point_1[1], point_2[2] - point_1[2])
        dist == FDiv(width_val * Scale, METERS_PER_TILE)
        perpendicular_vector == <<dir_vector[2], -dir_vector[1]>>
        half(i) == RDiv(FDiv(dist, 2) * perpendicular_vector[i], Scale)
        start_point == <<point_1[1] * Scale - half(1), point_1[2] * Scale - half(2)>>
        end_point == <<(point_2[1] + 1) * Scale - half(1),
                       (point_2[2] + 1) * Scale - half(2)>>
        off(i) == RDiv(dist * ray * perpendicular_vector[i], (rays_cast - 1) * Scale)
        s_p == <<start_point[1] + off(1), start_point[2] + off(2)>>
        e_p == <<end_point[1] + off(1), end_point[2] + off(2)>>
    IN  get_intersected_coordinates(s_p, e_p)

\* All tile indices the test samples
LineSamples(point_1, point_2, width_val) ==
    UNION {RaySamples(point_1, point_2, width_val, ray) : ray \in 0 .. rays_cast - 1}

\* _is_line_of_sight raises (ValueError of int(nan)) when the two points
\* coincide: the direction vector is 0/0.
LosRaises(point_1, point_2) == point_1 = point_2

\* _is_line_of_sight(env, point_1, point_2, width_val)
is_line_of_sight(m, point_1, point_2, width_val) ==
    \A c \in LineSamples(point_1, point_2, width_val) :
        get_tile(m, c[1], c[2]) # OBSTACLE

---------------------------------------------------------------------------
(* Theta* (environment.py, lines 262-308 and 468-614).  The local state of *)
(* a pathfind call is a record                                             *)
(*   [open_nodes_queue, close_nodes_list, traversal_costs, parent,         *)
(*    found, raised].                                                      *)

\* _cost(traversal_costs, point_1, point_2)
cost(traversal_costs, point_1, point_2) ==
    LET g_val == traversal_costs[point_1]
        dx == point_2[1] - point_1[1]
        dy == point_2[2] - point_1[2]
        distance_heuristic == SqrtMicro(dx * dx + dy * dy)
        ang == IF dx # 0 THEN AtanMicro(dy, dx) ELSE HalfPi
    IN  IF g_val = Inf THEN Inf ELSE g_val + ang + distance_heuristic

\* _poll: the first node of the queue with the lowest cost to the goal;
\* None when no node has a cost below infinity
poll(open_nodes_queue, traversal_costs, end_pos) ==
    LET cst(i) == cost(traversal_costs, open_nodes_queue[i], end_pos)
        best == {i \in 1 .. Len(open_nodes_queue) :
                    /\ cst(i) < Inf
                    /\ \A j \in 1 .. Len(open_nodes_queue) :
                          /\ cst(i) <= cst(j)
                          /\ (j < i => cst(i) < cst(j))}
    IN  IF best = {} THEN None
        ELSE open_nodes_queue[CHOOSE i \in best : TRUE]

\* list.remove(x): without the first occurrence of x
Remove(list, x) ==
    LET i == CHOOSE k \in 1 .. Len(list) :
                 list[k] = x /\ \A j \in 1 .. k - 1 : list[j] # x
    IN  SubSeq(list, 1, i - 1) \o SubSeq(list, i + 1, Len(list))

InList(x, list) == \E i \in 1 .. Len(list) : list[i] = x

\* mutant: point_2 is appended to the queue whether it is in it or not
SetParent_AppendAlways(st, new_parent, point_2) ==
    [st EXCEPT
        !.traversal_costs[point_2] = cost(st.traversal_costs, new_parent, point_2),
        !.parent[point_2] = new_parent,
        !.open_nodes_queue = Append(@, point_2)]

\* the assignment block of _update_vertex: point_2 gets the parent new_parent
SetParent(st, new_parent, point_2) ==
    [st EXCEPT
        !.traversal_costs[point_2] = cost(st.traversal_costs, new_parent, point_2),
        !.parent[point_2] = new_parent,
        !.open_nodes_queue = IF InList(point_2, st.open_nodes_queue) THEN @
                             ELSE Append(@, point_2)]

\* mutant: the parent of point_1 is never tried (the vertex update of A*)
update_vertex_PathOne(m, st, point_1, point_2, width_val) ==
    IF LosRaises(point_1, point_2) THEN [st EXCEPT !.raised = TRUE]
    ELSE IF is_line_of_sight(m, point_1, point_2, width_val)
            /\ cost(st.traversal_costs, point_1, point_2) < st.traversal_costs[point_2]
    THEN SetParent(st, point_1, point_2)
    ELSE st

\* mutant: point_2 is linked to the parent of point_1 without a look along
\* the line between them
update_vertex_NoParentSight(m, st, point_1, point_2, width_val) ==
    LET n_parent == st.parent[point_1]
    IN  IF LosRaises(point_1, point_2) THEN [st EXCEPT !.raised = TRUE]
        ELSE IF is_line_of_sight(m, point_1, point_2, width_val)
                /\ cost(st.traversal_costs, n_parent, point_2)
                        < st.traversal_costs[point_2]
        THEN SetParent(st, n_parent, point_2)
        ELSE st

\* _update_vertex(env, open_nodes_queue, traversal_costs, parent, point_1, point_2, w)
update_vertex(m, st, point_1, point_2, width_val) ==
    LET n_parent == st.parent[point_1]
    IN  IF LosRaises(point_1, point_2) THEN [st EXCEPT !.raised = TRUE]
        ELSE IF is_line_of_sight(m, point_1, point_2, width_val)
        THEN IF LosRaises(n_parent, point_2) THEN [st EXCEPT !.raised = TRUE]
             ELSE IF is_line_of_sight(m, n_parent, point_2, width_val)
             THEN IF cost(st.traversal_costs, n_parent, point_2)
                         < st.traversal_costs[point_2]
                  THEN SetParent(st, n_parent, point_2)
                  ELSE st
             ELSE IF cost(st.traversal_costs, point_1, point_2)
                         < st.traversal_costs[point_2]
                  THEN SetParent(st, point_1, point_2)
                  ELSE st
        ELSE st

adj == << <<1, 0>>, <<0, -1>>, <<-1, 0>>, <<0, 1>> >>

\* _get_neighbours(env, node): the adjacent non-obstacle nodes inside the map
get_neighbours(m, node) ==
    LET cand == [i \in 1 .. 4 |-> <<node[1] + adj[i][1], node[2] + adj[i][2]>>]
        keep(c) == /\ ~(c[1] < 0 \/ c[1] >= size[1])
                   /\ ~(c[2] < 0 \/ c[2] >= size[2])
                   /\ get_tile(m, c[1], c[2]) # OBSTACLE
    IN  SelectSeq(cand, keep)

\* the for loop over the neighbours of node (lines 592-595)
RECURSIVE UpdateNeighbours(_, _, _, _, _)
UpdateNeighbours(m, st, node, neighbours, width_val) ==
    IF neighbours = <<>> \/ st.raised THEN st
    ELSE LET neighbour == Head(neighbours)
             st2 == IF InList(neighbour, st.close_nodes_list) THEN st
                    ELSE update_vertex(m, st, node, neighbour, width_val)
         IN  UpdateNeighbours(m, st2, node, Tail(neighbours), width_val)

\* mutant: the start is not made its own parent (line 565 left out)
PathfindInit_NoStartParent(start_pos, end_pos) ==
    [open_nodes_queue |-> <<start_pos>>,
     close_nodes_list |-> <<>>,
     traversal_costs  |-> [c \in Cells |-> IF c = start_pos THEN 0 ELSE Inf],
     parent           |-> [c \in Cells |-> None],
     found            |-> FALSE,
     raised           |-> FALSE]

\* the state of pathfind before its loop (lines 559-571)
PathfindInit(start_pos, end_pos) ==
    [open_nodes_queue |-> <<start_pos>>,
     close_nodes_list |-> <<>>,
     traversal_costs  |-> [c \in Cells |-> IF c = start_pos THEN 0 ELSE Inf],
     parent           |-> [c \in Cells |-> IF c = start_pos THEN start_pos ELSE None],
     found            |-> FALSE,
     raised           |-> FALSE]

\* the loop of pathfind runs while the queue is not empty and no break was taken
Searching(st) == Len(st.open_nodes_queue) > 0 /\ ~st.found /\ ~st.raised

\* one iteration of the loop of pathfind (lines 573-595)
PathfindIter(m, st, end_pos, width_val) ==
    LET node == poll(st.open_nodes_queue, st.traversal_costs, end_pos)
    IN  IF node = None
        THEN [st EXCEPT !.raised = TRUE]      \* list.remove(None): ValueError
        ELSE LET polled == [st EXCEPT !.open_nodes_queue = Remove(@, node)]
             IN  IF node = end_pos
                 THEN [polled EXCEPT !.found = TRUE]
                 ELSE UpdateNeighbours(
                          m,
                          [polled EXCEPT !.close_nodes_list = Append(@, node)],
                          node, get_neighbours(m, node), width_val)

RECURSIVE PathfindLoop(_, _, _, _)
PathfindLoop(m, st, end_pos, width_val) ==
    IF Searching(st)
    THEN PathfindLoop(m, PathfindIter(m, st, end_pos, width_val), end_pos, width_val)
    ELSE st

\* the walk back from the goal along the parents (lines 603-608), reversed
RECURSIVE WalkBack(_, _, _)
WalkBack(parent, node, start_pos) ==
    IF node = start_pos THEN <<node>>
    ELSE Append(WalkBack(parent, parent[node], start_pos), node)

\* mutant: the goal is put on the route before its parent is looked at
PathfindResult_GoalFirst(st, start_pos, end_pos) ==
    IF st.parent[end_pos] = None THEN <<end_pos>>
    ELSE WalkBack(st.parent, end_pos, start_pos)

\* what pathfind returns from the state its loop ended in (lines 597-614)
PathfindResult(st, start_pos, end_pos) ==
    IF st.parent[end_pos] = None THEN <<>>
    ELSE WalkBack(st.parent, end_pos, start_pos)

\* pathfind(environment, start, end, width_val): [raised, route]
pathfind(m, start_pos, end_pos, width_val) ==
    LET st == PathfindLoop(m, PathfindInit(start_pos, end_pos), end_pos, width_val)
    IN  [raised |-> st.raised,
         route  |-> IF st.raised THEN <<>> ELSE PathfindResult(st, start_pos, end_pos)]

---------------------------------------------------------------------------
(* Multi-goal stitching (environment.py, lines 617-659) *)

\* mutant: the goals are taken in list order
NearestGoal_ListOrder(cur_node, temp_end_nodes) == temp_end_nodes[1]

\* the inner for loop (lines 633-643): the first goal of the list with the
\* smallest straight-line distance to cur_node
NearestGoal(cur_node, temp_end_nodes) ==
    LET dist(i) == SqrtMicro((temp_end_nodes[i][1] - cur_node[1])
                                 * (temp_end_nodes[i][1] - cur_node[1])
                             + (temp_end_nodes[i][2] - cur_node[2])
                                 * (temp_end_nodes[i][2] - cur_node[2]))
        i == CHOOSE k \in 1 .. Len(temp_end_nodes) :
                 \A j \in 1 .. Len(temp_end_nodes) :
                     /\ dist(k) <= dist(j)
                     /\ (j < k => dist(k) < dist(j))
    IN  temp_end_nodes[i]

\* mutant: every node of the planned route is appended
AppendPath_Always(full_path, cur_path) == full_path \o cur_path

\* the append loop (lines 649-655): a node equal to the last one is skipped
RECURSIVE AppendPath(_, _)
AppendPath(full_path, cur_path) ==
    IF cur_path = <<>> THEN full_path
    ELSE LET path_node == Head(cur_path)
         IN  IF Len(full_path) = 0 \/ path_node # full_path[Len(full_path)]
             THEN AppendPath(Append(full_path, path_node), Tail(cur_path))
             ELSE AppendPath(full_path, Tail(cur_path))

\* the while loop of pathfind_multiple; also returns the goals in the order
\* they were chosen
RECURSIVE Stitch(_, _, _, _, _, _)
Stitch(m, full_path, cur_node, temp_end_nodes, width_val, chosen) ==
    IF Len(temp_end_nodes) = 0
    THEN [raised |-> FALSE, route |-> full_path, chosen |-> chosen]
    ELSE LET cur_end_node == NearestGoal(cur_node, temp_end_nodes)
             new_tmp_nodes == SelectSeq(temp_end_nodes, LAMBDA e : e # cur_end_node)
             cur_path == pathfind(m, cur_node, cur_end_node, width_val)
         IN  IF cur_path.raised
             THEN [raised |-> TRUE, route |-> <<>>, chosen |-> chosen]
             ELSE Stitch(m, AppendPath(full_path, cur_path.route), cur_end_node,
                         new_tmp_nodes, width_val, Append(chosen, cur_end_node))

\* pathfind_multiple(environment, start, end_nodes, width_val)
pathfind_multiple(m, start_pos, end_nodes, width_val) ==
    Stitch(m, <<>>, start_pos, end_nodes, width_val, <<>>)

---------------------------------------------------------------------------
(* The Environment object (environment.py, lines 95-259)                   *)

\* Inputs of the calls
TileCells  == {<<1, 0>>, <<0, 1>>, <<1, 1>>}             \* set_tile(x, y, ..)
TileTypes  == {EMPTY, OBSTACLE}                   \* set_tile(.., env_type)
StartCells == {<<0, 0>>}                          \* set_start_end(start, ..)
GoalLists  ==                                     \* set_start_end(.., end)
    {<<>>, << <<2, 0>> >>, << <<2, 0>>, <<2, 2>> >>, << <<2, 2>>, <<2, 0>> >>,
     << <<2, 0>>, <<2, 0>> >>, << <<0, 0>> >>}
Widths     == {0, 100}                            \* get_path(width_val, ..), mm
Dirs       == {0, 1}                              \* directions, in quarter turns
Rovers     == {"rover"}

\* the grids set_tile can build
EnvMaps == {[c \in Cells |-> IF c \in o THEN OBSTACLE ELSE EMPTY] : o \in SUBSET TileCells}

\* pathfind_multiple(self, self._start, self._end, width_val) for every
\* environment and width of the model, computed once
PlanSet ==
    {<< <<m, s, e, w>>, pathfind_multiple(m, s, e, w)>> :
        m \in EnvMaps, s \in StartCells, e \in GoalLists, w \in Widths}
PlanTable(m, s, e, w) == (CHOOSE t \in PlanSet : t[1] = <<m, s, e, w>>)[2]

NoCall == [op |-> "none", width_val |-> 0, should_generate |-> FALSE,
           planned |-> FALSE, raised |-> FALSE, ret |-> None]
Called(name) == [NoCall EXCEPT !.op = name]

\* the other parts of the model are not running
PlanIdle == search = None
CmdIdle == command_queue = <<>> /\ current_command = None /\ vehicle = None /\ hist = None
ThreadIdle == pc = None /\ local = None

\* Environment.__init__(width, height)
EnvInit ==
    /\ map = [c \in Cells |-> EMPTY]
    /\ rover = None
    /\ start = None
    /\ end = None
    /\ start_dir = 0
    /\ end_dir = 0
    /\ path = None
    /\ call = NoCall
    /\ PlanIdle /\ CmdIdle /\ ThreadIdle

notEnv == <<planVars, cmdVars, thrVars>>

set_start_end(s, e) ==
    /\ start' = s
    /\ end' = e
    /\ call' = Called("set_start_end")
    /\ UNCHANGED <<map, start_dir, end_dir, rover, path, notEnv>>

set_start_direction(new_start_direction) ==
    /\ start_dir' = new_start_direction
    /\ call' = Called("set_start_direction")
    /\ UNCHANGED <<map, start, end, end_dir, rover, path, notEnv>>

set_end_direction(new_end_direction) ==
    /\ end_dir' = new_end_direction
    /\ call' = Called("set_end_direction")
    /\ UNCHANGED <<map, start, end, start_dir, rover, path, notEnv>>

set_rover(r) ==
    /\ rover' = r
    /\ call' = Called("set_rover")
    /\ UNCHANGED <<map, start, end, start_dir, end_dir, path, notEnv>>

\* mutant: a grid mutation invalidates the cached route
set_tile_Invalidates(x, y, env_type) ==
    /\ map' = [map EXCEPT ![<<x, y>>] = env_type]
    /\ path' = None
    /\ call' = Called("set_tile")
    /\ UNCHANGED <<start, end, start_dir, end_dir, rover, notEnv>>

set_tile(x, y, env_type) ==
    /\ map' = [map EXCEPT ![<<x, y>>] = env_type]
    /\ call' = Called("set_tile")
    /\ UNCHANGED <<start, end, start_dir, end_dir, rover, path, notEnv>>

\* mutant: the empty goal list is not tested
NoStartOrGoals_NoLenTest == start = None \/ end = None

\* get_path returns [] before it looks at the cache (lines 243-248)
NoStartOrGoals == start = None \/ end = None \/ Len(end[1]) = 0

\* mutant: the cache is not consulted
Generates_IgnoreCache(should_generate) == should_generate

\* mutant: an empty cached route counts as no route ("not self._path")
Generates_EmptyIsMissing(should_generate) ==
    should_generate /\ (path = None \/ path = Some(<<>>))

\* get_path generates a route (lines 251-252)
Generates(should_generate) == should_generate /\ path = None

\* mutant: planning works on the goal list of the environment itself and
\* leaves it without the goals it planned to
get_path_ConsumesGoals(width_val, should_generate) ==
    LET this == [Called("get_path") EXCEPT !.width_val = width_val,
                                            !.should_generate = should_generate]
    IN  /\ UNCHANGED <<map, start, start_dir, end_dir, rover, notEnv>>
        /\ IF NoStartOrGoals
           THEN /\ call' = [this EXCEPT !.ret = Some(<<>>)]
                /\ path' = path
                /\ end' = end
           ELSE IF Generates(should_generate)
           THEN LET planned == PlanTable(map, start, end[1], width_val)
                IN  /\ path' = IF planned.raised THEN path ELSE Some(planned.route)
                    /\ end' = Some(<<>>)
                    /\ call' = [this EXCEPT !.planned = TRUE,
                                            !.raised = planned.raised,
                                            !.ret = IF planned.raised THEN None
                                                    ELSE Some(planned.route)]
           ELSE /\ call' = [this EXCEPT !.ret = path]
                /\ path' = path
                /\ end' = end

\* Environment.get_path(width_val, should_generate)
get_path(width_val, should_generate) ==
    LET this == [Called("get_path") EXCEPT !.width_val = width_val,
                                            !.should_generate = should_generate]
    IN  /\ UNCHANGED <<map, start, end, start_dir, end_dir, rover, notEnv>>
        /\ IF NoStartOrGoals
           THEN /\ call' = [this EXCEPT !.ret = Some(<<>>)]
                /\ path' = path
           ELSE IF Generates(should_generate)
           THEN LET planned == PlanTable(map, start, end[1], width_val)
                IN  /\ path' = IF planned.raised THEN path ELSE Some(planned.route)
                    /\ call' = [this EXCEPT !.planned = TRUE,
                                            !.raised = planned.raised,
                                            !.ret = IF planned.raised THEN None
                                                    ELSE Some(planned.route)]
           ELSE /\ call' = [this EXCEPT !.ret = path]
                /\ path' = path

reset_path ==
    /\ path' = None
    /\ call' = Called("reset_path")
    /\ UNCHANGED <<map, start, end, start_dir, end_dir, rover, notEnv>>

EnvNext ==
    \/ \E s \in StartCells \cup {None}, e \in {None} \cup {Some(l) : l \in GoalLists} :
           set_start_end(s, e)
    \/ \E d \in Dirs : set_start_direction(d)
    \/ \E d \in Dirs : set_end_direction(d)
    \/ \E r \in Rovers \cup {None} : set_rover(r)
    \/ \E c \in TileCells, t \in TileTypes : set_tile(c[1], c[2], t)
    \/ \E w \in Widths, g \in BOOLEAN : get_path(w, g)
    \/ reset_path

SpecEnv == EnvInit /\ [][EnvNext]_vars

---------------------------------------------------------------------------
(* Claims about the route cache, checked under SpecEnv *)

IsGetPath(c) == c.op = "get_path"
\* what the planner makes of the current environment at width w
PlannedNow(w) == PlanTable(map, start, end[1], w).route

\* C1: with the start set and a non-empty goal list, get_path invokes the
\* planner only when should_generate is true and the cache is unset, and then
\* stores and returns the planner's result; in every other case it returns the
\* cache unchanged, whatever width is passed.
C1_PlannerOnlyOnMiss ==
    [][ (IsGetPath(call') /\ ~NoStartOrGoals) =>
          /\ call'.planned <=> (call'.should_generate /\ path = None)
          /\ call'.planned =>
                /\ path' = Some(PlannedNow(call'.width_val))
                /\ call'.ret = path'
          /\ ~call'.planned => (path' = path /\ call'.ret = path)
          /\ ~call'.raised ]_vars

\* a generating get_path returned a cached route that differs from what the
\* planner makes of the environment at the width passed
C1_Witness ==
    /\ IsGetPath(call) /\ ~NoStartOrGoals
    /\ call.should_generate /\ ~call.planned
    /\ path # None /\ call.ret = path
    /\ path[1] # PlannedNow(call.width_val)

\* C2: an empty route the planner returned is cached; while it is cached every
\* get_path returns it without planning, and only reset_path removes it; with
\* the cache unset (after reset_path) a generating get_path plans again.
C2_EmptyRouteStaysCached ==
    [][ /\ (IsGetPath(call') /\ call'.planned /\ call'.ret = Some(<<>>))
            => path' = Some(<<>>)
        /\ (path = Some(<<>>) /\ IsGetPath(call'))
            => (call'.ret = Some(<<>>) /\ ~call'.planned /\ path' = path)
        /\ (path = Some(<<>>) /\ call'.op # "reset_path") => path' = path
        /\ call'.op = "reset_path" => path' = None
        /\ (path = None /\ IsGetPath(call') /\ call'.should_generate
                /\ ~NoStartOrGoals) => call'.planned ]_vars

\* a generating get_path returned the cached empty route although the planner
\* would now find a route
C2_Witness ==
    /\ IsGetPath(call) /\ ~NoStartOrGoals
    /\ call.should_generate /\ ~call.planned
    /\ path = Some(<<>>) /\ call.ret = Some(<<>>)
    /\ PlannedNow(call.width_val) # <<>>

\* C3: the cache changes only by a planner write inside get_path or by
\* reset_path; the setters leave it as it is, and a route cached before a
\* mutation is still returned after it.
C3_CacheOnlyExplicit ==
    [][ /\ call'.op \in {"set_tile", "set_start_end", "set_start_direction",
                         "set_end_direction", "set_rover"} => path' = path
        /\ path' # path =>
              \/ call'.op = "reset_path" /\ path' = None
              \/ IsGetPath(call') /\ call'.planned
        /\ (path # None /\ IsGetPath(call') /\ ~NoStartOrGoals)
              => call'.ret = path ]_vars

\* after a set_tile the cache holds a route the planner would give at no width
C3_Witness ==
    /\ call.op = "set_tile" /\ ~NoStartOrGoals
    /\ path # None /\ path # Some(<<>>)
    /\ \A w \in Widths : PlannedNow(w) # path[1]

\* C4: with the start unset, the goals unset or the goal list empty, get_path
\* returns an empty route, without raising, planning or changing the cache.
C4_NoStartOrGoalsEmptyRoute ==
    [][ ((start = None \/ end = None \/ end = Some(<<>>)) /\ IsGetPath(call')) =>
          /\ call'.ret = Some(<<>>)
          /\ ~call'.planned /\ ~call'.raised
          /\ path' = path ]_vars

\* get_path returned the empty route while the cache holds a route
C4_Witness ==
    /\ IsGetPath(call) /\ end = Some(<<>>) /\ call.should_generate
    /\ call.ret = Some(<<>>)
    /\ path # None /\ path # Some(<<>>)

---------------------------------------------------------------------------
(* get_tile as a pure function of the grid and two indices *)

IdxX == -(GridW + 1) .. GridW
IdxY == -(GridH + 1) .. GridH

TileInit ==
    /\ map \in EnvMaps
    /\ start = None /\ end = None /\ rover = None /\ path = None
    /\ start_dir = 0 /\ end_dir = 0
    /\ call = NoCall
    /\ PlanIdle /\ CmdIdle /\ ThreadIdle

\* a call of Environment.get_tile(x, y) and what came of it
get_tile_call(x, y) ==
    /\ call' = [op |-> "get_tile", x |-> x, y |-> y,
                raised |-> get_tile(map, x, y) = IndexError,
                ret |-> get_tile(map, x, y)]
    /\ UNCHANGED <<map, start, end, start_dir, end_dir, rover, path, notEnv>>

TileNext == \E x \in IdxX, y \in IdxY : get_tile_call(x, y)

SpecTile == TileInit /\ [][TileNext]_vars

OutsideGrid(x, y) == x < 0 \/ x >= size[1] \/ y < 0 \/ y >= size[2]

\* C5: get_tile raises for every index pair outside the grid (x < 0,
\* x >= width, y < 0 or y >= height).
C5_OutsideGridRaises ==
    (call.op = "get_tile" /\ OutsideGrid(call.x, call.y)) => call.raised

---------------------------------------------------------------------------
(* One pathfind call, an iteration of its loop at a time *)

PlanTileCells == {<<1, 0>>, <<0, 1>>, <<2, 1>>, <<1, 2>>}
PlanMaps == {[c \in Cells |-> IF c \in o THEN OBSTACLE ELSE EMPTY] :
                o \in SUBSET PlanTileCells}

Goal == end[1][1]

PlanInit ==
    /\ map \in PlanMaps
    /\ start \in Cells
    /\ end \in {Some(<<g>>) : g \in Cells}
    /\ call \in {[Called("pathfind") EXCEPT !.width_val = w] : w \in Widths}
    /\ search = [phase |-> "loop", st |-> PathfindInit(start, Goal)]
    /\ rover = None /\ path = None /\ start_dir = 0 /\ end_dir = 0
    /\ CmdIdle /\ ThreadIdle

notPlan == <<map, start, end, start_dir, end_dir, rover, path, cmdVars, thrVars>>

\* one iteration of the while loop (lines 573-595)
pathfind_step ==
    /\ search.phase = "loop" /\ Searching(search.st)
    /\ search' = [search EXCEPT
                    !.st = PathfindIter(map, search.st, Goal, call.width_val)]
    /\ UNCHANGED <<call, notPlan>>

\* the loop has ended: the route is built and returned (lines 597-614)
pathfind_return ==
    /\ search.phase = "loop" /\ ~Searching(search.st)
    /\ search' = [search EXCEPT !.phase = "done"]
    /\ call' = [call EXCEPT
                  !.raised = search.st.raised,
                  !.ret = IF search.st.raised THEN None
                          ELSE Some(PathfindResult(search.st, start, Goal))]
    /\ UNCHANGED notPlan

PlanNext == pathfind_step \/ pathfind_return

SpecPlan == PlanInit /\ [][PlanNext]_vars

\* the cells that can be walked to from a set of cells over non-obstacle
\* neighbours
RECURSIVE Flood(_, _)
Flood(m, seen) ==
    LET more == seen \cup {n \in Cells :
                              \E c \in seen : InList(n, get_neighbours(m, c))}
    IN  IF more = seen THEN seen ELSE Flood(m, more)

Connected(m, s, g) == g \in Flood(m, {s})

\* every neighbour of g inside the grid is an obstacle
Enclosed(m, g) ==
    \A i \in 1 .. 4 :
        LET n == <<g[1] + adj[i][1], g[2] + adj[i][2]>>
        IN  n \in Cells => m[n] = OBSTACLE

\* C6: pathfind never raises; it returns the empty route exactly when the
\* goal has no parent after the open queue ran empty, and so for every goal
\* that no walk over non-obstacle neighbours connects to the start (a goal
\* whose neighbours are all obstacles among them).
C6_UnreachableGoalEmptyRoute ==
    /\ ~search.st.raised
    /\ search.phase = "done" =>
          /\ ~call.raised
          /\ (call.ret = Some(<<>>)) <=> (search.st.parent[Goal] = None)
          /\ search.st.parent[Goal] = None =>
                (search.st.open_nodes_queue = <<>> /\ ~search.st.found)
          /\ ~Connected(map, start, Goal) => call.ret = Some(<<>>)
          /\ (Enclosed(map, Goal) /\ start # Goal) => call.ret = Some(<<>>)

\* pathfind explored several nodes and returned the empty route for a goal
\* whose neighbours are all obstacles
C6_Witness ==
    /\ search.phase = "done"
    /\ Enclosed(map, Goal) /\ start # Goal
    /\ Len(search.st.close_nodes_list) >= 3
    /\ call.ret = Some(<<>>)

---------------------------------------------------------------------------
(* Claims about the stitched route, checked under SpecEnv *)

\* the goals of chosen appear in route in that order
RECURSIVE InOrder(_, _)
InOrder(chosen, route) ==
    IF chosen = <<>> THEN TRUE
    ELSE IF route = <<>> THEN FALSE
    ELSE IF Head(route) = Head(chosen) THEN InOrder(Tail(chosen), route)
    ELSE InOrder(chosen, Tail(route))

\* C7: every non-empty route get_path returns starts at the start cell, ends
\* at the last goal the nearest-first policy chose, and holds the chosen
\* goals in the order they were chosen.
C7_RouteStartsAtStart ==
    (IsGetPath(call) /\ call.planned /\ call.ret # Some(<<>>)) =>
        LET route == call.ret[1]
            chosen == PlanTable(map, start, end[1], call.width_val).chosen
        IN  /\ route[1] = start
            /\ route[Len(route)] = chosen[Len(chosen)]
            /\ InOrder(chosen, route)

---------------------------------------------------------------------------
(* The vehicle (rover.py) and the command executor (rover_commands.py).    *)
(* Distances are in micrometres, times in microseconds, wheel speeds in    *)
(* millimetres per second, angles in microradians.  A command is a record  *)
(* [type, value, time, id]: the tuple the code queues, and a tag id that   *)
(* tells the commands of a run apart.                                      *)

MaxAdds == 3

MOVE   == "MOVE"
ROTATE == "ROTATE"
RPMS   == "RPMS"
SET_POSITION == "SET_POSITION"
SET_ANGLE    == "SET_ANGLE"
MINE   == "MINE"

Pi == 2 * HalfPi

Sign(a) == IF a > 0 THEN 1 ELSE IF a < 0 THEN -1 ELSE 0

\* np.arctan2(dy, dx)
arctan2(dy, dx) ==
    IF dx > 0 THEN Sign(dy) * AtanMicro(dy, dx)
    ELSE IF dx < 0 THEN IF dy >= 0 THEN Pi - AtanMicro(dy, dx)
                        ELSE AtanMicro(dy, dx) - Pi
    ELSE Sign(dy) * HalfPi

\* the angle in (-pi, pi] that differs from a by a multiple of 2 pi
NormAngle(a) == ((a + Pi - 1) % (2 * Pi)) - Pi + 1

\* the integer vectors between two cells of the grid
Steps == {<<dx, dy>> : dx \in -(GridW - 1) .. GridW - 1,
                       dy \in -(GridH - 1) .. GridH - 1} \ {<<0, 0>>}

\* convert_angle_to_2d_vector(angle), up to length
convert_angle_to_2d_vector(angle) ==
    CHOOSE v \in Steps : arctan2(v[2], v[1]) = NormAngle(angle)

\* the unit vector convert_angle_to_2d_vector(angle), in thousandths
Vector2d(angle) ==
    LET v == convert_angle_to_2d_vector(angle)
        norm == SqrtMicro(v[1] * v[1] + v[2] * v[2]) \div 1000
    IN  <<RDiv(v[1] * 1000000, norm), RDiv(v[2] * 1000000, norm)>>

\* angle_from_motor_speed(motor1_speed, motor2_speed)
angle_from_motor_speed(motor1_speed, motor2_speed) ==
    TDiv(TIME_BETWEEN_MOVEMENTS * (motor1_speed - motor2_speed),
         DISTANCE_BETWEEN_MOTORS)

\* Rover.motor_move(motor1_speed, motor2_speed), without motor noise
motor_move(veh, motor1_speed, motor2_speed) ==
    LET angle_change == angle_from_motor_speed(motor1_speed, motor2_speed)
        distance == TDiv((motor1_speed + motor2_speed) * TIME_BETWEEN_MOVEMENTS, 1000)
        direction == veh.direction + angle_change
        d == Vector2d(direction)
    IN  [x |-> veh.x + TDiv(distance * d[1], 1000),
         y |-> veh.y + TDiv(distance * d[2], 1000),
         direction |-> direction]

\* Rover.move(distance)
move(veh, distance) ==
    LET motor_speed == TDiv(TDiv(distance * 1000, TIME_BETWEEN_MOVEMENTS), 2)
    IN  motor_move(veh, motor_speed, motor_speed)

\* Rover.set_angle(angle).  update calls it (rover_commands.py, line 141) but
\* src/digital_twin/rover.py does not hold it; it is taken to set the heading
\* to angle, as its name and the specification's SetHeading say.
set_angle(veh, angle) == [veh EXCEPT !.direction = angle]

\* Rover.set_position(position), called at line 146 and, like set_angle, not
\* held by src/digital_twin/rover.py: the position is set to the pair given
\* (gui_handler.py, lines 558-561, places the rover on its start with it).
set_position(veh, position) == [veh EXCEPT !.x = position[1], !.y = position[2]]

\* mutant: a MINE command drives the vehicle forward like a MOVE
apply_MineDrives(veh, cmd) ==
    CASE cmd.type = MOVE   -> move(veh, cmd.value)
      [] cmd.type = ROTATE -> set_angle(veh, cmd.value)
      [] cmd.type = RPMS   -> motor_move(veh, cmd.value[1], cmd.value[2])
      [] cmd.type = SET_POSITION -> set_position(veh, cmd.value)
      [] cmd.type = SET_ANGLE    -> set_angle(veh, cmd.value[1])
      [] OTHER             -> move(veh, 1000)

\* the rover calls of update for one command (lines 138-148)
apply(veh, cmd) ==
    CASE cmd.type = MOVE   -> move(veh, cmd.value)
      [] cmd.type = ROTATE -> set_angle(veh, cmd.value)
      [] cmd.type = RPMS   -> motor_move(veh, cmd.value[1], cmd.value[2])
      [] cmd.type = SET_POSITION -> set_position(veh, cmd.value)
      [] cmd.type = SET_ANGLE    -> set_angle(veh, cmd.value[1])
      [] OTHER             -> veh

\* mutant: only a missing current command counts
is_empty_QueueOnly == command_queue = <<>>

\* RoverCommands.is_empty()
is_empty == command_queue = <<>> /\ current_command = None

\* mutant: a command that has just run out is kept for another tick
Expired_Strict(cur) == cur = None \/ cur[1].time < 0

\* the test of _check_command (line 162)
Expired(cur) == cur = None \/ cur[1].time <= 0

\* isinstance(value, tuple): the commands whose value is a tuple
TupleValued(command_type) == command_type \in {RPMS, SET_POSITION, SET_ANGLE}

\* the value add_command queues (lines 108-111)
QueuedValue(command_type, value, time) ==
    IF ~TupleValued(command_type) /\ command_type # ROTATE
    THEN RDiv(value * TIME_BETWEEN_MOVEMENTS, time)
    ELSE value

\* the command after a tick (lines 151-152)
Ticked(cmd) == [cmd EXCEPT !.time = @ - TIME_BETWEEN_MOVEMENTS]

\* what add_command is called with: <<command_type, value, time>>
CmdInputs == {<<MOVE, 2000, 1000>>, <<MOVE, 3000, 1500>>,
              <<ROTATE, HalfPi, 2000>>, <<RPMS, <<500, 500>>, 1000>>,
              <<SET_POSITION, <<5000, 5000>>, 2000>>,
              <<SET_ANGLE, <<HalfPi>>, 2000>>,
              <<MINE, 0, 1000>>}

\* the record of a run: how many commands were added, the ids in the order
\* they became current, the time each command is still to be applied for,
\* the command last applied with the time it had left, what add_command was
\* called with for each command, and where the vehicle was when the last
\* command became current
HistInit == [added |-> 0, started |-> <<>>, left |-> <<>>, last |-> None,
             asked |-> <<>>, origin |-> None]

Added(h, command_type, value, time) ==
    [h EXCEPT !.added = @ + 1, !.left = Append(@, time),
              !.asked = Append(@, <<command_type, value, time>>)]
Started(h, cmd) ==
    [h EXCEPT !.started = Append(@, cmd.id), !.origin = Some(vehicle)]
Applied(h, cmd) ==
    [h EXCEPT !.left[cmd.id] = @ - TIME_BETWEEN_MOVEMENTS,
              !.last = Some([id |-> cmd.id, time |-> cmd.time])]

CmdInit ==
    /\ command_queue = <<>> /\ current_command = None
    /\ vehicle = [x |-> 0, y |-> 0, direction |-> 0]
    /\ hist = HistInit
    /\ map = [c \in Cells |-> EMPTY]
    /\ start = None /\ end = None /\ rover = None /\ path = None
    /\ start_dir = 0 /\ end_dir = 0 /\ call = NoCall
    /\ PlanIdle /\ ThreadIdle

\* the body of RoverCommands.add_command(command_type, value, time)
Enqueue(command_type, value, time) ==
    /\ command_queue' = Append(command_queue,
                               [type |-> command_type,
                                value |-> QueuedValue(command_type, value, time),
                                time |-> time,
                                id |-> hist.added + 1])
    /\ hist' = Added(hist, command_type, value, time)

\* RoverCommands.add_command(command_type, value, time)
add_command(command_type, value, time) ==
    /\ hist.added < MaxAdds
    /\ Enqueue(command_type, value, time)
    /\ UNCHANGED <<current_command, vehicle, envVars, planVars, thrVars>>

\* the body of RoverCommands.update(rover): _check_command, then one tick of
\* the command
Tick ==
    LET pops == Expired(current_command) /\ command_queue # <<>>
        cur == IF ~Expired(current_command) THEN current_command
               ELSE IF command_queue # <<>> THEN Some(Head(command_queue))
               ELSE None
    IN  /\ command_queue' = IF pops THEN Tail(command_queue) ELSE command_queue
        /\ IF cur = None
           THEN /\ current_command' = None
                /\ vehicle' = vehicle
                /\ hist' = hist
           ELSE /\ current_command' = Some(Ticked(cur[1]))
                /\ vehicle' = apply(vehicle, cur[1])
                /\ hist' = Applied(IF pops THEN Started(hist, cur[1]) ELSE hist,
                                   cur[1])

\* RoverCommands.update(rover)
update ==
    /\ Tick
    /\ UNCHANGED <<envVars, planVars, thrVars>>

CmdNext ==
    \/ \E c \in CmdInputs : add_command(c[1], c[2], c[3])
    \/ update

SpecCmd == CmdInit /\ [][CmdNext]_vars

\* update is called for ever (threadproc.py, lines 57-59), or for as long as
\* is_empty is false (rover_simulation.py, lines 159-160): weak fairness of
\* update, with ENABLED <<update>>_vars written out (update changes the state
\* unless the queue is empty and no command is current)
SpecCmdFair == CmdInit /\ [][CmdNext]_vars /\ ([]<>(command_queue = <<>> /\ current_command = None) \/ []<><<update>>_vars)

---------------------------------------------------------------------------
(* Claims about the executor driven from one thread *)

\* a command is still in the queue, or the current one has time left
SomeTimeLeft ==
    \/ command_queue # <<>>
    \/ (current_command # None /\ current_command[1].time > 0)

\* every command added so far was applied for all of its duration
AllApplied == \A i \in 1 .. hist.added : hist.left[i] <= 0

\* C9: with update driven from one thread, is_empty is true exactly when the
\* queue is empty and no current command is held; it is false while a command
\* has time left, true only when every added command ran for its whole
\* duration, becomes true after finitely many ticks, and then stays true
\* until another command is added.
C9_IsEmptySingleThread ==
    /\ [](is_empty <=> (Len(command_queue) = 0 /\ current_command = None))
    /\ [](SomeTimeLeft => ~is_empty)
    /\ [](is_empty => AllApplied)
    /\ (~is_empty ~> is_empty)
    /\ [][(is_empty /\ hist'.added = hist.added) => is_empty']_vars

\* every command the bound allows was added and ran, and is_empty is true
C9_Witness ==
    /\ is_empty
    /\ hist.added = MaxAdds /\ Len(hist.started) = MaxAdds
    /\ vehicle.x # 0

\* C10: the executor holds one current command at most; commands become
\* current in the order they were added, each once; the queue is popped only
\* when there is no current command or its time left is <= 0 (so a command
\* added while another runs waits); a command whose time has run out is not
\* applied again.
C10_FifoOneAtATime ==
    /\ [](/\ Len(current_command) <= 1
          /\ \A i \in 1 .. Len(hist.started) : hist.started[i] = i
          /\ Len(hist.started) + Len(command_queue) = hist.added
          /\ \A i \in 1 .. Len(command_queue) :
                command_queue[i].id = Len(hist.started) + i
          /\ current_command # None =>
                (/\ Len(hist.started) > 0
                 /\ current_command[1].id = hist.started[Len(hist.started)])
          /\ hist.last # None => hist.last[1].time > 0)
    /\ [][hist'.started # hist.started =>
            /\ (current_command = None \/ current_command[1].time <= 0)
            /\ hist'.started = Append(hist.started, Head(command_queue).id)
            /\ hist'.last = Some([id |-> Head(command_queue).id,
                                  time |-> Head(command_queue).time])]_vars
    /\ [][(hist'.last # hist.last /\ hist'.started = hist.started) =>
            /\ current_command # None /\ current_command[1].time > 0
            /\ hist'.last[1].id = current_command[1].id]_vars

\* the second command ran out and is still held, the third, added meanwhile,
\* waits in the queue
C10_Witness ==
    /\ Len(hist.started) = 2 /\ hist.added = 3
    /\ current_command # None /\ current_command[1].time <= 0
    /\ Len(command_queue) = 1
    /\ hist.last = Some([id |-> 2, time |-> 500])

---------------------------------------------------------------------------
(* Two threads on one RoverCommands object: the RoverCommandThread calls   *)
(* update in a loop (threadproc.py, lines 55-66); the caller adds its      *)
(* commands and then waits in "while not rover_command.is_empty()"         *)
(* (gui_handler.py, lines 498-501 and 572-588).                            *)
(* Neither RoverCommands nor its callers take a lock, so a thread switch   *)
(* can fall between any two reads or writes of the queue and of            *)
(* _current_command; the Queue's own methods are atomic.                   *)
(* pc.worker is the place of the thread inside update, local.item what     *)
(* queue.get() returned to it; pc.caller is the place of the caller,       *)
(* local.result what its last is_empty() call returned.                    *)

ThreadInputs == {<<MOVE, 2000, 1000>>, <<MINE, 0, 2000>>}

ThreadInit ==
    /\ pc = [worker |-> "check", caller |-> "add"]
    /\ local = [item |-> None, result |-> FALSE]
    /\ command_queue = <<>> /\ current_command = None
    /\ vehicle = [x |-> 0, y |-> 0, direction |-> 0]
    /\ hist = HistInit
    /\ map = [c \in Cells |-> EMPTY]
    /\ start = None /\ end = None /\ rover = None /\ path = None
    /\ start_dir = 0 /\ end_dir = 0 /\ call = NoCall
    /\ PlanIdle

notCmd == <<envVars, planVars>>

\* line 162: the test of _check_command
worker_check ==
    /\ pc.worker = "check"
    /\ pc' = [pc EXCEPT !.worker = IF Expired(current_command) THEN "clear"
                                   ELSE "apply"]
    /\ UNCHANGED <<command_queue, current_command, vehicle, hist, local, notCmd>>

\* line 164: self._current_command = None
worker_clear ==
    /\ pc.worker = "clear"
    /\ current_command' = None
    /\ pc' = [pc EXCEPT !.worker = "empty"]
    /\ UNCHANGED <<command_queue, vehicle, hist, local, notCmd>>

\* line 167: if not self._command_queue.empty()
worker_empty ==
    /\ pc.worker = "empty"
    /\ pc' = [pc EXCEPT !.worker = IF command_queue # <<>> THEN "get" ELSE "apply"]
    /\ UNCHANGED <<command_queue, current_command, vehicle, hist, local, notCmd>>

\* line 168, right-hand side: self._command_queue.get()
worker_get ==
    /\ pc.worker = "get"
    /\ command_queue # <<>>
    /\ local' = [local EXCEPT !.item = Some(Head(command_queue))]
    /\ command_queue' = Tail(command_queue)
    /\ hist' = Started(hist, Head(command_queue))
    /\ pc' = [pc EXCEPT !.worker = "store"]
    /\ UNCHANGED <<current_command, vehicle, notCmd>>

\* line 168, the assignment: self._current_command = <what get returned>
worker_store ==
    /\ pc.worker = "store"
    /\ current_command' = local.item
    /\ local' = [local EXCEPT !.item = None]
    /\ pc' = [pc EXCEPT !.worker = "apply"]
    /\ UNCHANGED <<command_queue, vehicle, hist, notCmd>>

\* lines 128-148: the current command, if any, is applied to the rover
worker_apply ==
    /\ pc.worker = "apply"
    /\ IF current_command = None
       THEN /\ pc' = [pc EXCEPT !.worker = "check"]
            /\ UNCHANGED <<vehicle, hist>>
       ELSE /\ vehicle' = apply(vehicle, current_command[1])
            /\ hist' = Applied(hist, current_command[1])
            /\ pc' = [pc EXCEPT !.worker = "write"]
    /\ UNCHANGED <<command_queue, current_command, local, notCmd>>

\* lines 151-152: the time left is written back
worker_write ==
    /\ pc.worker = "write"
    /\ current_command' = Some(Ticked(current_command[1]))
    /\ pc' = [pc EXCEPT !.worker = "check"]
    /\ UNCHANGED <<command_queue, vehicle, hist, local, notCmd>>

\* the caller adds a command
caller_add(command_type, value, time) ==
    /\ pc.caller = "add"
    /\ hist.added < MaxAdds
    /\ command_queue' = Append(command_queue,
                               [type |-> command_type,
                                value |-> QueuedValue(command_type, value, time),
                                time |-> time,
                                id |-> hist.added + 1])
    /\ hist' = Added(hist, command_type, value, time)
    /\ UNCHANGED <<current_command, vehicle, pc, local, notCmd>>

\* is_empty, left operand: self._command_queue.empty(); "and" stops here
\* when it is false
caller_poll_queue ==
    /\ \/ pc.caller = "poll"
       \/ pc.caller = "add" /\ hist.added > 0
    /\ pc' = [pc EXCEPT !.caller = IF command_queue = <<>> THEN "poll_current"
                                   ELSE "poll"]
    /\ local' = [local EXCEPT !.result = FALSE]
    /\ UNCHANGED <<command_queue, current_command, vehicle, hist, notCmd>>

\* is_empty, right operand: self._current_command is None; the caller leaves
\* its loop when is_empty returned True
caller_poll_current ==
    /\ pc.caller = "poll_current"
    /\ local' = [local EXCEPT !.result = (current_command = None)]
    /\ pc' = [pc EXCEPT !.caller = IF current_command = None THEN "done"
                                   ELSE "poll"]
    /\ UNCHANGED <<command_queue, current_command, vehicle, hist, notCmd>>

ThreadNext ==
    \/ worker_check \/ worker_clear \/ worker_empty \/ worker_get
    \/ worker_store \/ worker_apply \/ worker_write
    \/ \E c \in ThreadInputs : caller_add(c[1], c[2], c[3])
    \/ caller_poll_queue \/ caller_poll_current

SpecThread == ThreadInit /\ [][ThreadNext]_vars

\* C8: with update running in its own thread and all commands added,
\* is_empty never returns true to the polling thread while an added command
\* has not been applied for its whole duration.
C8_IsEmptyMeansAllApplied ==
    (pc.caller = "done" /\ local.result) => AllApplied

---------------------------------------------------------------------------
(* Claims about what a command does to the vehicle over its ticks,         *)
(* checked under SpecCmd                                                   *)

\* the command held as current, and what add_command was called with for it
Current == current_command[1]
AskedOf(cmd) == hist.asked[cmd.id]

\* C11: a SET_POSITION or SET_ANGLE command is applied on one tick only: the
\* tick that applies it finds it with its issued duration and leaves it with
\* no time, so that the next tick pops the following command.
C11_SetAppliedOnOneTick ==
    (current_command # None /\ Current.type \in {SET_POSITION, SET_ANGLE}) =>
        /\ hist.last[1].time = AskedOf(Current)[3]
        /\ Current.time <= 0

\* C12: when a MOVE has run out, the vehicle has advanced by the distance
\* asked for along the heading it had, and when a ROTATE has run out the
\* heading has changed by, or is, the angle asked for.
C12_TicksAddUpToTotal ==
    (current_command # None /\ Current.time <= 0) =>
        LET asked == AskedOf(Current)[2]
            from == hist.origin[1]
            d == Vector2d(from.direction)
        IN  /\ Current.type = MOVE =>
                  /\ vehicle.x - from.x = TDiv(asked * d[1], 1000)
                  /\ vehicle.y - from.y = TDiv(asked * d[2], 1000)
                  /\ vehicle.direction = from.direction
            /\ Current.type = ROTATE =>
                  \/ vehicle.direction = asked
                  \/ vehicle.direction = from.direction + asked

---------------------------------------------------------------------------
(* The translator of a route into commands (rover_commands.py, lines       *)
(* 274-361).  Angles are in microradians.  A direction vector is kept as a *)
(* vector of small integers of the same direction: get_angle_from_vectors, *)
(* the only reader of the vectors, does not depend on their lengths.       *)

ROVER_MAX_SPEED == 1000            \* millimetres per second
RotateTime == 200 * 1000           \* the 0.2 s of a ROTATE
MineTime   == 100 * 1000           \* the 0.1 s of a MINE

\* get_angle_from_vectors(vector_1, vector_2): minus the angle from vector_1
\* to vector_2, which is the angle of (cross product, dot product), and 0
\* when it is within 1e-5.  A half turn comes out as pi or as -pi by the
\* sign of a floating zero; the two are the same heading and the model
\* returns -pi for both.
get_angle_from_vectors(vector_1, vector_2) ==
    LET y == vector_1[1] * vector_2[2] - vector_1[2] * vector_2[1]
        x == vector_1[1] * vector_2[1] + vector_1[2] * vector_2[2]
        theta == IF x = 0 /\ y = 0 THEN 0
                 ELSE -NormAngle(arctan2(vector_2[2], vector_2[1])
                                   - arctan2(vector_1[2], vector_1[1]))
    IN  IF Abs(theta) <= 10 THEN 0 ELSE theta

\* list.index(x): the place of the first x, counted from 0
Index(list, x) ==
    (CHOOSE k \in 1 .. Len(list) :
        list[k] = x /\ \A j \in 1 .. k - 1 : list[j] # x) - 1

\* the new_angle a ROTATE is issued with (lines 314-318)
Wrapped(new_angle) ==
    IF new_angle > Pi THEN new_angle - 2 * Pi
    ELSE IF new_angle < -Pi THEN new_angle + 2 * Pi
    ELSE new_angle

\* mutant: a ROTATE is issued before every MOVE
SegmentCommands_RotateAlways(end_pos, cur_pos, cur_direction, node) ==
    LET dx == node[1] - cur_pos[1]
        dy == node[2] - cur_pos[2]
        new_angle == arctan2(dy, dx)
        distance == FDiv(SqrtMicro(dx * dx + dy * dy) * METERS_PER_TILE, 1000)
        time == FDiv(distance * 1000, ROVER_MAX_SPEED)
        angle == IF Index(end_pos, node) = Len(end_pos) - 1 THEN HalfPi
                 ELSE -HalfPi
    IN  << <<ROTATE, Wrapped(new_angle), RotateTime>>,
           <<MOVE, distance, time>> >>
        \o (IF InList(node, end_pos)
            THEN << <<ROTATE, angle, RotateTime>>,
                    <<MINE, 0, MineTime>>,
                    <<ROTATE, Wrapped(new_angle), RotateTime>> >>
            ELSE <<>>)

\* mutant: nothing is mined
SegmentCommands_NoMining(end_pos, cur_pos, cur_direction, node) ==
    LET dx == node[1] - cur_pos[1]
        dy == node[2] - cur_pos[2]
        vector_1 == convert_angle_to_2d_vector(cur_direction)
        vector_2 == <<dx, dy>>
        new_angle == arctan2(dy, dx)
        d_angle == get_angle_from_vectors(vector_1, vector_2)
        distance == FDiv(SqrtMicro(dx * dx + dy * dy) * METERS_PER_TILE, 1000)
        time == FDiv(distance * 1000, ROVER_MAX_SPEED)
    IN  (IF d_angle # 0 THEN << <<ROTATE, Wrapped(new_angle), RotateTime>> >>
         ELSE <<>>)
        \o << <<MOVE, distance, time>> >>

\* the commands of one step of the loop (lines 296-341), from cur_pos with
\* the heading cur_direction to the cell node
SegmentCommands(end_pos, cur_pos, cur_direction, node) ==
    LET dx == node[1] - cur_pos[1]
        dy == node[2] - cur_pos[2]
        vector_1 == convert_angle_to_2d_vector(cur_direction)
        vector_2 == <<dx, dy>>
        new_angle == arctan2(dy, dx)
        d_angle == get_angle_from_vectors(vector_1, vector_2)
        distance == FDiv(SqrtMicro(dx * dx + dy * dy) * METERS_PER_TILE, 1000)
        time == FDiv(distance * 1000, ROVER_MAX_SPEED)
        angle == IF Index(end_pos, node) = Len(end_pos) - 1 THEN HalfPi
                 ELSE -HalfPi
    IN  (IF d_angle # 0 THEN << <<ROTATE, Wrapped(new_angle), RotateTime>> >>
         ELSE <<>>)
        \o << <<MOVE, distance, time>> >>
        \o (IF InList(node, end_pos)
            THEN << <<ROTATE, angle, RotateTime>>,
                    <<MINE, 0, MineTime>>,
                    <<ROTATE, Wrapped(new_angle), RotateTime>> >>
            ELSE <<>>)

\* the for loop (lines 295-345): the commands, and the heading after them
RECURSIVE Segments(_, _, _, _, _)
Segments(end_pos, rest, cur_pos, cur_direction, cmds) ==
    IF rest = <<>> THEN [cmds |-> cmds, cur_direction |-> cur_direction]
    ELSE LET node == Head(rest)
         IN  Segments(end_pos, Tail(rest), node,
                      arctan2(node[2] - cur_pos[2], node[1] - cur_pos[1]),
                      cmds \o SegmentCommands(end_pos, cur_pos, cur_direction, node))

\* mutant: the last ROTATE is issued whatever the headings
FinalCommands_Always(cur_direction, rover_final_direction) ==
    LET vector_1 == convert_angle_to_2d_vector(cur_direction)
        vector_2 == convert_angle_to_2d_vector(rover_final_direction)
        d_angle == get_angle_from_vectors(vector_1, vector_2)
    IN  << <<ROTATE, -d_angle, RotateTime>> >>

\* the last ROTATE (lines 347-359)
FinalCommands(cur_direction, rover_final_direction) ==
    LET vector_1 == convert_angle_to_2d_vector(cur_direction)
        vector_2 == convert_angle_to_2d_vector(rover_final_direction)
        d_angle == get_angle_from_vectors(vector_1, vector_2)
    IN  IF d_angle # 0 THEN << <<ROTATE, -d_angle, RotateTime>> >> ELSE <<>>

\* create_rover_instructions_from_path(env, path, rover_direction,
\* rover_final_direction), end_pos being env.get_start_end()[1]
create_rover_instructions_from_path(end_pos, route, rover_direction, rover_final_direction) ==
    LET seg == Segments(end_pos, Tail(route), route[1], rover_direction, <<>>)
    IN  seg.cmds \o FinalCommands(seg.cur_direction, rover_final_direction)

---------------------------------------------------------------------------
(* A run of a route: run_rover_main (gui_handler.py, lines 537-572) places *)
(* the rover on the start cell with the starting heading, gets the route   *)
(* from get_path and translates it; the commands are added, and update is  *)
(* called for as long as is_empty is false (rover_simulation.py, lines     *)
(* 155-160), on a rover without motor noise.                               *)

MaxRoute == 2

\* the headings run_rover_main can set: int(text) * numpy.pi / 2
Headings == {0, HalfPi, Pi, -HalfPi, 3 * HalfPi}

\* the routes of up to n cells
RECURSIVE RoutesUpTo(_)
RoutesUpTo(n) ==
    IF n = 1 THEN {<<c>> : c \in Cells}
    ELSE RoutesUpTo(n - 1) \cup
         {Append(r, c) : r \in {q \in RoutesUpTo(n - 1) : Len(q) = n - 1},
                         c \in Cells}

\* no cell of the route is followed by itself
Proper(r) == \A i \in 1 .. Len(r) - 1 : r[i] # r[i + 1]

\* the bearing of the step from cell a to cell b
Bearing(a, b) == arctan2(b[2] - a[2], b[1] - a[1])

\* a route of two or more cells all of whose steps have one bearing
Straight(r) ==
    /\ Len(r) >= 2 /\ Proper(r)
    /\ \A i \in 2 .. Len(r) - 1 : Bearing(r[i], r[i + 1]) = Bearing(r[1], r[2])

\* the cell the routes that are run start on
RunStart == <<GridW \div 2, GridH \div 2>>
Corner == <<GridW - 1, GridH - 1>>

NoObstacles == [c \in Cells |-> EMPTY]

\* the MOVE commands of a command list
RECURSIVE Moves(_)
Moves(cmds) ==
    IF cmds = <<>> THEN <<>>
    ELSE IF Head(cmds)[1] = MOVE THEN <<Head(cmds)>> \o Moves(Tail(cmds))
    ELSE Moves(Tail(cmds))

\* one run: the grid, the goal cells, the cached route (None: get_path
\* plans), the width get_path plans with, the two headings, whether the
\* commands are run, and whether only the MOVE commands are
RunInput(m, s, g, p, w, h0, h1, run, moves_only) ==
    [map |-> m, start |-> s, end_pos |-> g, path |-> p, width_val |-> w,
     rover_direction |-> h0, rover_final_direction |-> h1,
     run |-> run, moves_only |-> moves_only]

\* routes held by the cache that are run in full
RunsInFull ==
    {RunInput(NoObstacles, r[1], g, Some(r), 0, h0, h1, TRUE, FALSE) :
        r \in {q \in RoutesUpTo(MaxRoute) : Proper(q) /\ q[1] = RunStart},
        g \in {<<Corner>>},
        h0 \in Headings \ {3 * HalfPi}, h1 \in {0, HalfPi}}

\* straight routes whose MOVE commands alone are run
RunsOfMoves ==
    {RunInput(NoObstacles, r[1], <<r[Len(r)]>>, Some(r), 0, 0, 0, TRUE, TRUE) :
        r \in {q \in RoutesUpTo(MaxRoute + 1) : Straight(q)}}

\* the start cells of the routes that are translated only
PlanStarts == {<<0, 0>>, RunStart}

\* routes held by the cache that are translated
Translations ==
    {RunInput(NoObstacles, r[1], g, Some(r), 0, h0, h1, FALSE, FALSE) :
        r \in {q \in RoutesUpTo(MaxRoute + 1) : Proper(q) /\ q[1] \in PlanStarts},
        g \in {<<Corner>>, <<Corner, RunStart>>, <<RunStart, Corner>>,
               <<RunStart, Corner, <<0, 0>> >>},
        h0 \in {0, HalfPi}, h1 \in {0, -HalfPi}}

\* routes get_path plans: the goal on the start, and any other goal on a
\* grid without obstacles
Plans ==
    {RunInput(m, s, <<s>>, None, 0, h0, h1, FALSE, FALSE) :
        m \in EnvMaps, s \in PlanStarts,
        h0 \in Headings, h1 \in {0, HalfPi}}
    \cup
    {RunInput(NoObstacles, s, <<g>>, None, w, h0, h1, FALSE, FALSE) :
        s \in PlanStarts, g \in Cells, w \in Widths,
        h0 \in Headings, h1 \in {0, HalfPi}}

RunInputs == RunsInFull \cup RunsOfMoves \cup Translations \cup Plans

\* pathfind_multiple for the routes get_path plans in a run
RunPlanSet ==
    {<<k, pathfind_multiple(k[1], k[2], k[3], k[4])>> :
        k \in {<<in.map, in.start, in.end_pos, in.width_val>> : in \in Plans}}
RunPlanTable(m, s, e, w) == (CHOOSE t \in RunPlanSet : t[1] = <<m, s, e, w>>)[2]

\* the centre of a cell, in micrometres
Centre(k) == (2 * k + 1) * ((METERS_PER_TILE * 1000) \div 2)

RunInit ==
    /\ \E in \in RunInputs :
          /\ call = [op |-> "run_rover_main", in |-> in, cmds |-> None,
                     ticks |-> 0, raised |-> FALSE]
          /\ map = in.map
          /\ start = Some(in.start) /\ end = Some(in.end_pos)
          /\ path = in.path
    /\ vehicle = [x |-> 0, y |-> 0, direction |-> 0]
    /\ command_queue = <<>> /\ current_command = None
    /\ hist = HistInit
    /\ rover = None /\ start_dir = 0 /\ end_dir = 0
    /\ PlanIdle /\ ThreadIdle

\* run_rover_main up to the translation (gui_handler.py, lines 555-569):
\* translating an empty route raises IndexError (path[0])
run_rover_main ==
    /\ call.cmds = None /\ ~call.raised
    /\ LET in == call.in
           route == IF Generates(TRUE)
                    THEN RunPlanTable(map, start[1], end[1], in.width_val).route
                    ELSE path[1]
           cmds == create_rover_instructions_from_path(
                       end[1], route, in.rover_direction,
                       in.rover_final_direction)
       IN  /\ path' = Some(route)
           /\ vehicle' = set_angle(
                   set_position(vehicle, <<Centre(start[1][1]), Centre(start[1][2])>>),
                   in.rover_direction)
           /\ call' = IF route = <<>> THEN [call EXCEPT !.raised = TRUE]
                      ELSE [call EXCEPT !.cmds =
                               Some(IF in.moves_only THEN Moves(cmds) ELSE cmds)]
    /\ UNCHANGED <<map, start, end, start_dir, end_dir, rover, command_queue,
                   current_command, hist, planVars, thrVars>>

\* for cmd in rover_cmds: rover_command.add_command(cmd[0], cmd[1], cmd[2])
simulate_add ==
    /\ call.cmds # None /\ call.in.run
    /\ hist.added < Len(call.cmds[1])
    /\ LET cmd == call.cmds[1][hist.added + 1]
       IN  Enqueue(cmd[1], cmd[2], cmd[3])
    /\ UNCHANGED <<current_command, vehicle, envVars, planVars, thrVars>>

\* while not rover_command.is_empty(): rover_command.update(cur_rover)
simulate_update ==
    /\ call.cmds # None /\ call.in.run
    /\ hist.added = Len(call.cmds[1])
    /\ ~is_empty
    /\ Tick
    /\ call' = [call EXCEPT !.ticks = @ + 1]
    /\ UNCHANGED <<map, start, end, start_dir, end_dir, rover, path,
                   planVars, thrVars>>

RunNext == run_rover_main \/ simulate_add \/ simulate_update

SpecRun == RunInit /\ [][RunNext]_vars

\* the translation was made
Translated == call.cmds # None

\* the run is over: every command was added and is_empty is true
RunOver ==
    /\ Translated /\ call.in.run
    /\ hist.added = Len(call.cmds[1]) /\ is_empty

\* the total of the times the commands added were asked to run for
RECURSIVE TotalTime(_)
TotalTime(asked) ==
    IF asked = <<>> THEN 0 ELSE Head(asked)[3] + TotalTime(Tail(asked))

\* C13: when a queue built only from the MOVE commands of a straight route
\* has been run until is_empty is true, the number of update ticks, counted
\* with or without the tick that made is_empty true, is within one tick of
\* the total MOVE duration divided by the tick period.
C13_TicksMatchTotalDuration ==
    (RunOver /\ call.in.moves_only) =>
        \E n \in {call.ticks, call.ticks - 1} :
            Abs(n * TIME_BETWEEN_MOVEMENTS - TotalTime(hist.asked))
                <= TIME_BETWEEN_MOVEMENTS

\* C14: when the whole command list of a route has been run, the heading
\* of the vehicle is the requested ending heading, modulo 2 pi.
C14_EndsOnFinalHeading ==
    (RunOver /\ ~call.in.moves_only) =>
        Abs(NormAngle(vehicle.direction - call.in.rover_final_direction)) <= 10

---------------------------------------------------------------------------
(* The command list of a route                                             *)

\* the route translated and the commands it gave
Route == path[1]
Cmds == call.cmds[1]

\* a command list without its MINE commands and the ROTATE on either side
\* of each
RECURSIVE StripMining(_)
StripMining(cmds) ==
    IF cmds = <<>> THEN <<>>
    ELSE IF Len(cmds) >= 2 /\ cmds[2][1] = MINE
         THEN StripMining(SubSeq(cmds, 4, Len(cmds)))
         ELSE <<Head(cmds)>> \o StripMining(Tail(cmds))

\* the heading before step i of a route: the starting heading, then the
\* bearing of the step before
HeadingBefore(route, i, rover_direction) ==
    IF i = 1 THEN rover_direction ELSE Bearing(route[i - 1], route[i])

\* two headings are one direction
SameHeading(a, b) == NormAngle(a - b) = 0

\* the length of the step from cell a to cell b, in micrometres
StepLength(a, b) ==
    (SqrtMicro((b[1] - a[1]) * (b[1] - a[1]) + (b[2] - a[2]) * (b[2] - a[2]))
        * METERS_PER_TILE) \div 1000

\* what step i of a route is to give: a ROTATE to the bearing of the step
\* if the heading before it is another one, and the MOVE
StepCommands(route, i, rover_direction) ==
    LET bearing == Bearing(route[i], route[i + 1])
        distance == StepLength(route[i], route[i + 1])
    IN  (IF SameHeading(bearing, HeadingBefore(route, i, rover_direction))
         THEN <<>> ELSE << <<ROTATE, bearing, RotateTime>> >>)
        \o << <<MOVE, distance, (distance * 1000) \div ROVER_MAX_SPEED>> >>

RECURSIVE StepsFrom(_, _, _)
StepsFrom(route, i, rover_direction) ==
    IF i >= Len(route) THEN <<>>
    ELSE StepCommands(route, i, rover_direction)
         \o StepsFrom(route, i + 1, rover_direction)

\* C15: apart from the mining commands and the last ROTATE, the command
\* list of a route is, step by step in route order, one MOVE of the length
\* of the step lasting length / maximum speed, with a ROTATE to the bearing
\* of the step right before it exactly when that bearing is not the heading
\* before the step, the heading after a step being its bearing.
C15_OneMovePerStep ==
    (Translated /\ ~call.in.moves_only) =>
        LET core == StripMining(Cmds)
            steps == StepsFrom(Route, 1, call.in.rover_direction)
        IN  \/ core = steps
            \/ /\ Len(core) = Len(steps) + 1
               /\ SubSeq(core, 1, Len(steps)) = steps
               /\ core[Len(core)][1] = ROTATE

\* a route of three cells was translated that turns before its first step,
\* goes straight on at its second and mines on the way
C15_Witness ==
    /\ Translated /\ ~call.in.moves_only
    /\ Len(Route) = 3
    /\ ~SameHeading(Bearing(Route[1], Route[2]), call.in.rover_direction)
    /\ Bearing(Route[2], Route[3]) = Bearing(Route[1], Route[2])
    /\ \E k \in 1 .. Len(Cmds) : Cmds[k][1] = MINE
    /\ Len(Moves(Cmds)) = 2

\* from command k on, the commands are those of the steps i, i + 1, .. of
\* the route, with ROTATE, MINE, ROTATE back to the bearing right after the
\* MOVE to a goal cell and no MINE elsewhere, and at most a last ROTATE
RECURSIVE MinesAtGoals(_, _, _, _)
MinesAtGoals(cmds, k, route, i) ==
    IF i >= Len(route)
    THEN k > Len(cmds) \/ (k = Len(cmds) /\ cmds[k][1] = ROTATE)
    ELSE LET k1 == IF k <= Len(cmds) /\ cmds[k][1] = ROTATE THEN k + 1 ELSE k
             bearing == Bearing(route[i], route[i + 1])
         IN  /\ k1 <= Len(cmds) /\ cmds[k1][1] = MOVE
             /\ IF InList(route[i + 1], end[1])
                THEN /\ k1 + 3 <= Len(cmds)
                     /\ cmds[k1 + 1][1] = ROTATE
                     /\ Abs(cmds[k1 + 1][2]) = HalfPi
                     /\ cmds[k1 + 2][1] = MINE
                     /\ cmds[k1 + 3] = <<ROTATE, bearing, RotateTime>>
                     /\ MinesAtGoals(cmds, k1 + 4, route, i + 1)
                ELSE MinesAtGoals(cmds, k1 + 1, route, i + 1)

\* a list backwards
Reverse(list) == [k \in 1 .. Len(list) |-> list[Len(list) + 1 - k]]

\* C16: the command list of a route has ROTATE, MINE, ROTATE back right
\* after the MOVE to every route cell after the first that is a goal cell
\* and a MINE nowhere else, and the directions of the mining ROTATEs go by
\* the order the route visits the goals in: they are the same with the
\* goal cells configured in the opposite order.
C16_MiningByVisitingOrder ==
    (Translated /\ ~call.in.moves_only) =>
        /\ MinesAtGoals(Cmds, 1, Route, 1)
        /\ Cmds = create_rover_instructions_from_path(
                      Reverse(end[1]), Route, call.in.rover_direction,
                      call.in.rover_final_direction)

\* get_path planned the route that was translated
Planned == Translated /\ call.in.path = None

\* the start cell is the one goal cell
StartOnGoal == end[1] = <<start[1]>>

\* C17 as stated: with the start on the single goal, the route planned is
\* the start cell alone and its command list is empty, whatever the two
\* headings.
C17_StartOnGoalNoCommands ==
    (Planned /\ StartOnGoal) => (Route = <<start[1]>> /\ Cmds = <<>>)

\* C17, amended: with the start on the single goal, the route planned is the
\* start cell alone, and its command list is empty when the ending heading
\* is the starting heading modulo 2 pi, and one ROTATE, the last one,
\* otherwise.
C17_StartOnGoalNoMove ==
    (Planned /\ StartOnGoal) =>
        /\ Route = <<start[1]>>
        /\ IF SameHeading(call.in.rover_direction, call.in.rover_final_direction)
           THEN Cmds = <<>>
           ELSE Len(Cmds) = 1 /\ Cmds[1][1] = ROTATE /\ Cmds[1][3] = RotateTime

\* the start was on the single goal, on a grid with obstacles, with the
\* ending heading opposite to the starting one: one ROTATE was issued
C17_Witness ==
    /\ Planned /\ StartOnGoal
    /\ \E c \in Cells : map[c] = OBSTACLE
    /\ call.in.rover_direction = 3 * HalfPi
    /\ call.in.rover_final_direction = HalfPi
    /\ Len(Cmds) = 1

\* the grid has no obstacle and the one goal cell is not the start cell
OpenGrid ==
    /\ \A c \in Cells : map[c] # OBSTACLE
    /\ Len(end[1]) = 1 /\ end[1][1] # start[1]

\* the types of the commands of a list
Types(cmds) == [k \in 1 .. Len(cmds) |-> cmds[k][1]]

\* C18 as stated: on a grid without obstacles, with the goal off the start,
\* the route planned is the start cell and the goal cell, and its command
\* list is one MOVE with at most one ROTATE before it and nothing else.
C18_OpenGridOneMove ==
    (Planned /\ OpenGrid) =>
        /\ Route = <<start[1], end[1][1]>>
        /\ Types(Cmds) \in {<<MOVE>>, <<ROTATE, MOVE>>}

\* C18, amended: on a grid without obstacles, with the goal off the start,
\* the route planned is the start cell and the goal cell, and its command
\* list is one MOVE with at most one ROTATE before it, then the ROTATE,
\* MINE, ROTATE of the goal, then at most one last ROTATE, and nothing else.
C18_OpenGridOneMoveThenMine ==
    (Planned /\ OpenGrid) =>
        /\ Route = <<start[1], end[1][1]>>
        /\ \E before \in {<<>>, <<ROTATE>>}, after \in {<<>>, <<ROTATE>>} :
              Types(Cmds) = before \o <<MOVE, ROTATE, MINE, ROTATE>> \o after

\* a route was planned with the wide clearance on a grid without obstacles
\* to a goal off the start, and its commands have both the ROTATE before
\* the MOVE and the last ROTATE
C18_Witness ==
    /\ Planned /\ OpenGrid
    /\ call.in.width_val = 100
    /\ Types(Cmds) = <<ROTATE, MOVE, ROTATE, MINE, ROTATE, ROTATE>>

---------------------------------------------------------------------------
(* The line-of-sight test called on its own: every grid of up to           *)
(* MaxObstacles obstacles, every two distinct cells, the clearance widths  *)
(* 0, 10, 24 and 100 mm.                                                   *)

MaxObstacles == 2

LosMaps ==
    {[c \in Cells |-> IF c \in o THEN OBSTACLE ELSE EMPTY] :
        o \in {q \in SUBSET Cells : Cardinality(q) <= MaxObstacles}}
LosWidths == {0, 10, 24, 100}

LosInit ==
    /\ map \in LosMaps
    /\ \E a \in Cells, b \in Cells, w \in LosWidths :
          /\ a # b
          /\ call = [op |-> "_is_line_of_sight", point_1 |-> a, point_2 |-> b,
                     width_val |-> w, ret |-> None]
    /\ start = None /\ end = None /\ rover = None /\ path = None
    /\ start_dir = 0 /\ end_dir = 0
    /\ PlanIdle /\ CmdIdle /\ ThreadIdle

\* _is_line_of_sight(env, point_1, point_2, width_val)
is_line_of_sight_call ==
    /\ call.ret = None
    /\ call' = [call EXCEPT !.ret =
                   Some(is_line_of_sight(map, call.point_1, call.point_2,
                                         call.width_val))]
    /\ UNCHANGED <<map, start, end, start_dir, end_dir, rover, path,
                   planVars, cmdVars, thrVars>>

LosNext == is_line_of_sight_call

SpecLos == LosInit /\ [][LosNext]_vars

\* the cells of the grid the rays of the call sample
SampledCells ==
    LineSamples(call.point_1, call.point_2, call.width_val) \cap Cells

\* C19: the test returns false only for an obstacle on a sampled cell of
\* the grid: samples outside the grid count as clear, whatever the grid
\* holds.
C19_OutsideSamplesAreClear ==
    call.ret # None =>
        call.ret[1] = (\A c \in SampledCells : map[c] # OBSTACLE)

\* C20: the test gives the same answer with its two cells exchanged.
C20_LineOfSightSymmetric ==
    call.ret # None =>
        call.ret[1] = is_line_of_sight(map, call.point_2, call.point_1,
                                       call.width_val)


---------------------------------------------------------------------------
(* Motor noise: Rover.motor_move with motor_stdev (rover.py, lines 70-101) *)

MaxTicks == 2

\* the values numpy.random.normal(0, motor_stdev) is taken to return, mm/s
NoiseSamples == {-50, 0, 50}

\* Rover(.., motor_stdev): no noise, and ROVER_STANDARD_DEVIATION in mm/s
MotorStdevs == {0, 18}

\* the wheel speeds motor_move is called with: move, rotate and an arc
MotorSpeeds == {<<500, 500>>, <<1000, 1000>>, <<500, -500>>, <<500, 300>>}

\* the unit vector of an angle within a twentieth of a radian of a quarter
\* turn, in thousandths: cos and sin to first order around the quarter turn
NearVector2d(angle) ==
    LET base == CHOOSE b \in {0, HalfPi, Pi, -HalfPi} :
                    Abs(NormAngle(angle - b)) <= 50000
        delta == NormAngle(angle - base)
        v == Vector2d(base)
    IN  <<v[1] - RDiv(delta * v[2], 1000000), v[2] + RDiv(delta * v[1], 1000000)>>

\* mutant: the position is advanced along the heading before the turn
Advance_OldHeading(veh, angle_change, distance) ==
    LET d == NearVector2d(veh.direction)
    IN  [x |-> veh.x + TDiv(distance * d[1], 1000),
         y |-> veh.y + TDiv(distance * d[2], 1000),
         direction |-> veh.direction + angle_change]

\* the heading and position after a tick that turns by angle_change and
\* advances by distance (lines 94-101)
Advance(veh, angle_change, distance) ==
    LET direction == veh.direction + angle_change
        d == NearVector2d(direction)
    IN  [x |-> veh.x + TDiv(distance * d[1], 1000),
         y |-> veh.y + TDiv(distance * d[2], 1000),
         direction |-> direction]

\* the distance of a tick at the wheel speeds given, in micrometres
TickDistance(speed1, speed2) == TDiv((speed1 + speed2) * TIME_BETWEEN_MOVEMENTS, 1000)

\* Rover.motor_move(motor1_speed, motor2_speed) with the noise samples drawn
\* at lines 84-85: the angle is computed from the adjusted speeds (90-91),
\* the distance from the speeds the call was given (92)
noisy_motor_move(veh, motor1_speed, motor2_speed, motor1_randomness, motor2_randomness) ==
    LET motor1_speed_adj == motor1_speed + motor1_randomness
        motor2_speed_adj == motor2_speed + motor2_randomness
        angle_change == angle_from_motor_speed(motor1_speed_adj, motor2_speed_adj)
        distance == TickDistance(motor1_speed, motor2_speed)
    IN  Advance(veh, angle_change, distance)

\* Rover(x, y, direction, motor_stdev)
MotorInit ==
    /\ vehicle \in {[x |-> 5000, y |-> 5000, direction |-> d] : d \in {0, HalfPi}}
    /\ call \in {[op |-> "Rover", motor_stdev |-> sd, speeds |-> <<0, 0>>,
                  noise |-> None, before |-> None, ticks |-> 0] :
                    sd \in MotorStdevs}
    /\ command_queue = <<>> /\ current_command = None /\ hist = None
    /\ map = [c \in Cells |-> EMPTY]
    /\ start = None /\ end = None /\ rover = None /\ path = None
    /\ start_dir = 0 /\ end_dir = 0
    /\ PlanIdle /\ ThreadIdle

\* one call of motor_move: a sample for each wheel when motor_stdev > 0
\* (line 83), none otherwise
motor_move_call(motor1_speed, motor2_speed) ==
    /\ call.ticks < MaxTicks
    /\ \E noise \in IF call.motor_stdev > 0
                    THEN {Some(<<n1, n2>>) : n1 \in NoiseSamples, n2 \in NoiseSamples}
                    ELSE {None} :
          /\ vehicle' = IF noise = None
                        THEN noisy_motor_move(vehicle, motor1_speed, motor2_speed, 0, 0)
                        ELSE noisy_motor_move(vehicle, motor1_speed, motor2_speed,
                                              noise[1][1], noise[1][2])
          /\ call' = [call EXCEPT !.op = "motor_move",
                                  !.speeds = <<motor1_speed, motor2_speed>>,
                                  !.noise = noise,
                                  !.before = Some(vehicle),
                                  !.ticks = @ + 1]
    /\ UNCHANGED <<map, start, end, start_dir, end_dir, rover, path, planVars,
                   command_queue, current_command, hist, thrVars>>

MotorNext == \E s \in MotorSpeeds : motor_move_call(s[1], s[2])

SpecMotor == MotorInit /\ [][MotorNext]_vars

\* C21: with a noise deviation above zero each wheel speed gets its own
\* sample on every tick, and both the heading change and the distance of the
\* tick are those of the perturbed speeds; with no deviation no sample is
\* drawn and the tick is that of the speeds given.
C21_NoiseInHeadingAndDistance ==
    call.op = "motor_move" =>
        LET before == call.before[1]
            s == call.speeds
        IN  IF call.motor_stdev > 0
            THEN /\ call.noise # None
                 /\ LET n == call.noise[1]
                    IN  vehicle = Advance(before,
                                          angle_from_motor_speed(s[1] + n[1], s[2] + n[2]),
                                          TickDistance(s[1] + n[1], s[2] + n[2]))
            ELSE /\ call.noise = None
                 /\ vehicle = Advance(before, angle_from_motor_speed(s[1], s[2]),
                                      TickDistance(s[1], s[2]))


---------------------------------------------------------------------------
(* The critical value of the robustness test (rover_simulation.py, lines   *)
(* 14-63).  Probabilities are in millionths, prob_failure in percent.      *)

MaxX == 12

\* binomial_approx(trial_num, probability, x) = normal(N p, sqrt(N p (1 - p)), x)
\* for x = 0, 1, ..: the values of the source in millionths; the values
\* after the last one listed are below half a millionth
BinomialTab ==
    <<4, 50>>  :> <<53991, 241971, 398942, 241971, 53991, 4432, 134, 1>> @@
    <<5, 50>>  :> <<29290, 145074, 322868, 322868, 145074, 29290, 2657, 108, 2>> @@
    <<10, 50>> :> <<1700, 10285, 41707, 113372, 206577, 252313, 206577, 113372,
                    41707, 10285, 1700, 188, 14, 1>> @@
    <<10, 10>> :> <<241276, 420522, 241276, 45571, 2833, 58>> @@
    <<20, 10>> :> <<97887, 225235, 297354, 225235, 97887, 24408, 3492, 287, 13>>

binomial_approx(trial_num, probability, x) ==
    LET row == BinomialTab[<<trial_num, probability>>]
    IN  IF x + 1 <= Len(row) THEN row[x + 1] ELSE 0

\* binomial_cdf: the sum of binomial_approx over range(x)
RECURSIVE binomial_cdf(_, _, _)
binomial_cdf(trial_num, probability, x) ==
    IF x <= 0 THEN 0
    ELSE binomial_cdf(trial_num, probability, x - 1)
            + binomial_approx(trial_num, probability, x - 1)

\* what simulate is called with
TrialNumbers == {k[1] : k \in DOMAIN BinomialTab}
Probabilities == {k[2] : k \in DOMAIN BinomialTab}
Significances == {-50000, 0, 50000, 300000, 900000, 999900}

CritInit ==
    /\ call \in {[op |-> "get_critical_value", trial_num |-> k[1],
                  probability |-> k[2], significance_value |-> sv,
                  cur_p |-> 0, cur_x |-> -1, ret |-> None] :
                    k \in DOMAIN BinomialTab, sv \in Significances}
    /\ map = [c \in Cells |-> EMPTY]
    /\ start = None /\ end = None /\ rover = None /\ path = None
    /\ start_dir = 0 /\ end_dir = 0
    /\ PlanIdle /\ CmdIdle /\ ThreadIdle

\* the test of the while loop (line 59)
CriticalGoesOn(cur_p, significance_value) == cur_p < significance_value

\* one iteration of the loop (lines 60-61)
critical_step ==
    /\ call.op = "get_critical_value" /\ call.ret = None
    /\ CriticalGoesOn(call.cur_p, call.significance_value)
    /\ call.cur_x < MaxX
    /\ call' = [call EXCEPT
                  !.cur_x = @ + 1,
                  !.cur_p = binomial_cdf(call.trial_num, call.probability,
                                         call.cur_x + 1)]
    /\ UNCHANGED <<map, start, end, start_dir, end_dir, rover, path,
                   planVars, cmdVars, thrVars>>

\* return cur_x (line 63)
critical_return ==
    /\ call.op = "get_critical_value" /\ call.ret = None
    /\ ~CriticalGoesOn(call.cur_p, call.significance_value)
    /\ call' = [call EXCEPT !.ret = Some(call.cur_x)]
    /\ UNCHANGED <<map, start, end, start_dir, end_dir, rover, path,
                   planVars, cmdVars, thrVars>>

CritNext == critical_step \/ critical_return

SpecCrit == CritInit /\ [][CritNext]_vars

\* C26: for a significance level above zero the value returned is the
\* largest x whose approximated P(X < x) is at most the level: the sum up to
\* it is not above the level and the sum up to the next value is.
C26_LargestBelowLevel ==
    (call.op = "get_critical_value" /\ call.ret # None
        /\ call.significance_value > 0) =>
        LET x == call.ret[1]
        IN  /\ x >= 0
            /\ binomial_cdf(call.trial_num, call.probability, x)
                    <= call.significance_value
            /\ binomial_cdf(call.trial_num, call.probability, x + 1)
                    > call.significance_value


---------------------------------------------------------------------------
(* is_valid_position (rover_simulation.py, lines 66-94) as a function of   *)
(* the grid and a point in micrometres                                     *)

\* the side of a tile in micrometres
TileSide == METERS_PER_TILE * 1000

\* is_valid_position(env, x, y)
is_valid_position(m, x, y) ==
    LET cur_x == TDiv(x, TileSide)
        cur_y == TDiv(y, TileSide)
        is_in_bounds == /\ ~(cur_x < 0 \/ cur_x > size[1])
                        /\ ~(cur_y < 0 \/ cur_y > size[2])
    IN  /\ is_in_bounds
        /\ get_tile(m, cur_x, cur_y) # IndexError
        /\ get_tile(m, cur_x, cur_y) # OBSTACLE

\* coordinates around the two borders of an axis of n tiles
Coordinates(n) ==
    {-TileSide - 5000, -TileSide, -TileSide + 100, -5000, -100, 0, 5000,
     TileSide + 5000, n * TileSide - 100, n * TileSide, n * TileSide + 100,
     n * TileSide + 5000, (n + 1) * TileSide + 5000}

ValidInit ==
    /\ map \in EnvMaps
    /\ start = None /\ end = None /\ rover = None /\ path = None
    /\ start_dir = 0 /\ end_dir = 0
    /\ call = NoCall
    /\ PlanIdle /\ CmdIdle /\ ThreadIdle

\* a call of is_valid_position(env, x, y) and what it returned
is_valid_position_call(x, y) ==
    /\ call' = [op |-> "is_valid_position", x |-> x, y |-> y,
                ret |-> is_valid_position(map, x, y)]
    /\ UNCHANGED <<map, start, end, start_dir, end_dir, rover, path, notEnv>>

ValidNext ==
    \E x \in Coordinates(GridW), y \in Coordinates(GridH) : is_valid_position_call(x, y)

SpecValid == ValidInit /\ [][ValidNext]_vars

\* the point lies outside the rectangle of the grid
OutsideArea(x, y) ==
    x < 0 \/ x >= size[1] * TileSide \/ y < 0 \/ y >= size[2] * TileSide

\* C24: is_valid_position is false for every point outside the grid, also
\* for a point whose negative coordinate is less than a tile beyond the
\* border, and for every point inside an obstacle.
C24_OutsidePointsInvalid ==
    call.op = "is_valid_position" =>
        /\ OutsideArea(call.x, call.y) => ~call.ret
        /\ (~OutsideArea(call.x, call.y)
              /\ map[<<call.x \div TileSide, call.y \div TileSide>>] = OBSTACLE)
                => ~call.ret


---------------------------------------------------------------------------
(* simulate(env, trial_number, prob_failure, significance_value)           *)
(* (rover_simulation.py, lines 97-190)                                     *)

\* get_critical_value as a function: the value the loop returns, None when
\* the loop never ends (the sums have stopped growing below the level)
RECURSIVE CriticalLoop(_, _, _, _, _)
CriticalLoop(trial_num, probability, significance_value, cur_x, cur_p) ==
    IF ~CriticalGoesOn(cur_p, significance_value) THEN Some(cur_x)
    ELSE IF cur_x >= Len(BinomialTab[<<trial_num, probability>>]) THEN None
    ELSE CriticalLoop(trial_num, probability, significance_value, cur_x + 1,
                      binomial_cdf(trial_num, probability, cur_x + 1))

get_critical_value(trial_num, probability, significance_value) ==
    CriticalLoop(trial_num, probability, significance_value, -1, 0)

\* the environments simulate is called on
SimGoals == {<< <<2, 2>> >>, << <<2, 0>>, <<2, 2>> >>, << <<0, 0>> >>}
SimTests == {<<4, 50, 0>>, <<4, 50, 50000>>, <<4, 50, 300000>>,
             <<10, 10, 50000>>, <<10, 10, 999900>>}

\* env.get_path(cur_width_val) after env.reset_path(), for the first width
SimPlanSet ==
    {<< <<m, e>>, pathfind_multiple(m, <<0, 0>>, e, DISTANCE_BETWEEN_MOTORS)>> :
        m \in EnvMaps, e \in SimGoals}
SimPlanTable(m, e) == (CHOOSE t \in SimPlanSet : t[1] = <<m, e>>)[2]

\* an argument of the translator: what it is, and the start and the goals
\* get_start_end() gives
TupleArg == [type |-> "tuple", start_end |-> <<start, end[1]>>]
EnvironmentArg == [type |-> "Environment", start_end |-> <<start, end[1]>>]

\* create_rover_instructions_from_path(env, path, rover_direction): its first
\* statement is env.get_start_end() (rover_commands.py, line 292), which
\* raises AttributeError for anything but an Environment
Instructions(env, route, rover_direction) ==
    IF env.type # "Environment" THEN [raised |-> TRUE, cmds |-> <<>>]
    ELSE [raised |-> FALSE,
          cmds |-> create_rover_instructions_from_path(env.start_end[2], route,
                                                       rover_direction, 0)]

\* the vehicle set_rover has bound to the environment before the call; a
\* vehicle is named by the trial it was made for, 0 for this one
BoundRover == <<"Rover", 0>>

SimInit ==
    /\ map \in EnvMaps
    /\ start = <<0, 0>>
    /\ end \in {Some(e) : e \in SimGoals}
    /\ rover \in {None, Some(BoundRover)}
    /\ path \in {None, Some(<<>>)}
    /\ start_dir = 0 /\ end_dir = 0
    /\ call \in {[op |-> "simulate", trial_number |-> t[1], prob_failure |-> t[2],
                  significance_value |-> t[3], stage |-> "critical",
                  critical_value |-> None, cur_width_val |-> 0,
                  generated |-> 0, trials |-> 0, failed_trials |-> 0,
                  raised |-> None, ret |-> None,
                  path0 |-> None, rover0 |-> None] : t \in SimTests}
    /\ PlanIdle /\ CmdIdle /\ ThreadIdle

\* mutant: a critical value of -1 is not looked for
InvalidCritical_Never(critical_value) == FALSE

\* the test of line 117
InvalidCritical(critical_value) == critical_value = -1

\* lines 112-124: the critical value, the error for -1, the first width.
\* The call does not get past line 115 when the search never ends.
simulate_critical ==
    /\ call.op = "simulate" /\ call.stage = "critical"
    /\ LET found == get_critical_value(call.trial_number, call.prob_failure,
                                       call.significance_value)
           entered == [call EXCEPT !.path0 = path, !.rover0 = rover]
       IN  /\ found # None
           /\ call' = IF InvalidCritical(found[1])
                      THEN [entered EXCEPT !.critical_value = found,
                                           !.stage = "done",
                                           !.raised = Some("ValueError")]
                      ELSE [entered EXCEPT !.critical_value = found,
                                           !.stage = "width",
                                           !.cur_width_val = DISTANCE_BETWEEN_MOTORS]
    /\ UNCHANGED <<map, start, end, start_dir, end_dir, rover, path, notEnv>>

\* lines 127-140: the route is dropped and planned again at the width; an
\* empty route ends the call; otherwise the translator is called with the
\* tuple env.get_start_end() in the place of the environment
simulate_generate ==
    /\ call.op = "simulate" /\ call.stage = "width"
    /\ LET planned == SimPlanTable(map, end[1])
           rover_cmds == Instructions(TupleArg, planned.route, -HalfPi)
           generating == [call EXCEPT !.generated = @ + 1, !.stage = "done"]
       IN  IF planned.raised
           THEN /\ path' = None
                /\ call' = [generating EXCEPT !.raised = Some("IndexError")]
           ELSE /\ path' = Some(planned.route)
                /\ call' = IF Len(planned.route) = 0
                           THEN [generating EXCEPT !.ret = Some(<<>>)]
                           ELSE IF rover_cmds.raised
                           THEN [generating EXCEPT !.raised = Some("AttributeError")]
                           ELSE [generating EXCEPT !.stage = "trials"]
    /\ UNCHANGED <<map, start, end, start_dir, end_dir, rover, notEnv>>

SimNext == simulate_critical \/ simulate_generate

SpecSim == SimInit /\ [][SimNext]_vars

\* simulate runs on in its thread until it returns or raises
SpecSimFair == SimInit /\ [][SimNext]_vars /\ WF_vars(SimNext)

SimOver == call.op = "simulate" /\ call.stage = "done"

\* C22: a call of simulate with a critical value ends by returning: the
\* empty route exactly when the planner gives no route at the width, and
\* otherwise the route planned at a width whose failed trials stayed below
\* the critical value.
C22_ReturnsEmptyOrAcceptedRoute ==
    (SimOver /\ ~InvalidCritical(call.critical_value[1])) =>
        /\ call.raised = None
        /\ call.ret # None
        /\ (call.ret = Some(<<>>)) <=> (SimPlanTable(map, end[1]).route = <<>>)
        /\ call.ret # Some(<<>>) =>
              (call.ret = path /\ call.failed_trials < call.critical_value[1])

\* C23: every call of simulate comes to an end: a width is accepted or the
\* planner reports no route (or the call is refused for its critical value).
C23_SimulateTerminates ==
    <>(SimOver /\ (call.ret # None \/ call.raised = Some("ValueError")))

---------------------------------------------------------------------------
(* The trials of simulate for one width (rover_simulation.py, lines        *)
(* 142-179), as the loop is written, entered with the command list of a    *)
(* translation that was given the environment.  (In simulate itself line   *)
(* 140 raises before the loop, see simulate_generate.)                     *)

\* the queue after "for cmd in rover_cmds: add_command(..)" (lines 156-157)
RECURSIVE QueueOf(_, _)
QueueOf(cmds, k) ==
    IF cmds = <<>> THEN <<>>
    ELSE LET c == Head(cmds)
         IN  <<[type |-> c[1], value |-> QueuedValue(c[1], c[2], c[3]),
                time |-> c[3], id |-> k]>> \o QueueOf(Tail(cmds), k + 1)

RECURSIVE AddedAll(_, _)
AddedAll(h, cmds) ==
    IF cmds = <<>> THEN h
    ELSE AddedAll(Added(h, Head(cmds)[1], Head(cmds)[2], Head(cmds)[3]), Tail(cmds))

\* the rover calls of update for one command, on a rover with motor noise
noisy_apply(veh, cmd, motor1_randomness, motor2_randomness) ==
    LET motor_speed == TDiv(TDiv(cmd.value * 1000, TIME_BETWEEN_MOVEMENTS), 2)
    IN  CASE cmd.type = MOVE ->
                noisy_motor_move(veh, motor_speed, motor_speed,
                                 motor1_randomness, motor2_randomness)
          [] cmd.type = RPMS ->
                noisy_motor_move(veh, cmd.value[1], cmd.value[2],
                                 motor1_randomness, motor2_randomness)
          [] OTHER -> apply(veh, cmd)

\* has_passed (lines 164-172): the centre and the four corners of the vehicle
Footprint(veh) ==
    LET half == (DISTANCE_BETWEEN_MOTORS * 1000) \div 2
    IN  <<<<veh.x, veh.y>>, <<veh.x - half, veh.y - half>>,
          <<veh.x + half, veh.y - half>>, <<veh.x - half, veh.y + half>>,
          <<veh.x + half, veh.y + half>>>>

FootprintValid(m, veh) ==
    \A k \in 1 .. 5 : is_valid_position(m, Footprint(veh)[k][1], Footprint(veh)[k][2])

\* the environments with a route at the first width, and the trial counts
\* and critical values of the tests
TrialInit ==
    /\ map \in EnvMaps
    /\ start = <<0, 0>>
    /\ end \in {Some(e) : e \in SimGoals}
    /\ SimPlanTable(map, end[1]).route # <<>>
    /\ path = Some(SimPlanTable(map, end[1]).route)
    /\ rover \in {None, Some(BoundRover)}
    /\ start_dir = 0 /\ end_dir = 0
    /\ call \in {[op |-> "trials", stage |-> "for",
                  trial_number |-> t[1],
                  critical_value |-> get_critical_value(t[1], t[2], t[3])[1],
                  rover_cmds |-> Instructions(EnvironmentArg, path[1], -HalfPi).cmds,
                  i |-> 0, ticks |-> 0, failed_trials |-> 0,
                  map0 |-> map, path0 |-> path, rover0 |-> rover,
                  cur_width_val |-> DISTANCE_BETWEEN_MOTORS, ret |-> None] :
                    t \in {u \in SimTests \cup {<<4, 50, 995000>>} :
                             /\ get_critical_value(u[1], u[2], u[3]) # None
                             /\ get_critical_value(u[1], u[2], u[3])[1] > 0}}
    /\ vehicle = None
    /\ command_queue = <<>> /\ current_command = None /\ hist = None
    /\ PlanIdle /\ ThreadIdle

\* mutant: the trials of a width are run to the last one
AfterTrial_AllTrials(frame) ==
    IF frame.i >= frame.trial_number
    THEN [frame EXCEPT !.stage = "done"]
    ELSE [frame EXCEPT !.stage = "for"]

\* the frame after a trial has ended: the test of lines 178-179 and the
\* next round of the for loop
AfterTrial(frame) ==
    IF frame.failed_trials >= frame.critical_value \/ frame.i >= frame.trial_number
    THEN [frame EXCEPT !.stage = "done"]
    ELSE [frame EXCEPT !.stage = "for"]

\* lines 145-157: a new vehicle on the start, a new executor, the vehicle
\* bound to the environment, the commands queued
trial_begin ==
    /\ call.op = "trials" /\ call.stage = "for"
    /\ vehicle' = [x |-> Centre(start[1]), y |-> Centre(start[2]),
                   direction |-> start_dir]
    /\ rover' = Some(<<"Rover", call.i + 1>>)
    /\ command_queue' = QueueOf(call.rover_cmds, 1)
    /\ current_command' = None
    /\ hist' = AddedAll(HistInit, call.rover_cmds)
    /\ call' = IF call.rover_cmds = <<>>
               THEN AfterTrial([call EXCEPT !.i = @ + 1, !.ticks = 0])
               ELSE [call EXCEPT !.i = @ + 1, !.ticks = 0, !.stage = "while"]
    /\ UNCHANGED <<map, start, end, start_dir, end_dir, path, planVars, thrVars>>

\* lines 159-176: one update of the executor, then the test of the position
trial_tick ==
    /\ call.op = "trials" /\ call.stage = "while"
    /\ \E n1 \in NoiseSamples, n2 \in NoiseSamples :
         LET pops == Expired(current_command) /\ command_queue # <<>>
             cur == IF ~Expired(current_command) THEN current_command
                    ELSE IF command_queue # <<>> THEN Some(Head(command_queue))
                    ELSE None
             moved == IF cur = None THEN vehicle
                      ELSE noisy_apply(vehicle, cur[1], n1, n2)
             queue == IF pops THEN Tail(command_queue) ELSE command_queue
             current == IF cur = None THEN None ELSE Some(Ticked(cur[1]))
             has_passed == FootprintValid(map, moved)
             ticked == [call EXCEPT !.ticks = @ + 1]
         IN  /\ command_queue' = queue
             /\ current_command' = current
             /\ vehicle' = moved
             /\ hist' = IF cur = None THEN hist
                        ELSE Applied(IF pops THEN Started(hist, cur[1]) ELSE hist,
                                     cur[1])
             /\ call' = IF ~has_passed
                        THEN AfterTrial([ticked EXCEPT !.failed_trials = @ + 1])
                        ELSE IF queue = <<>> /\ current = None
                        THEN AfterTrial(ticked)
                        ELSE ticked
    /\ UNCHANGED <<map, start, end, start_dir, end_dir, rover, path,
                   planVars, thrVars>>

\* lines 181-190: with fewer failures than the critical value the width is
\* accepted and its route returned; otherwise the width is raised for the
\* next round of the width loop (which the model does not follow)
trial_decide ==
    /\ call.op = "trials" /\ call.stage = "done"
    /\ call' = IF call.failed_trials < call.critical_value
               THEN [call EXCEPT !.stage = "returned", !.ret = path]
               ELSE [call EXCEPT !.stage = "rejected",
                                 !.cur_width_val = @ + 10]   \* adjustment_value
    /\ UNCHANGED <<map, start, end, start_dir, end_dir, rover, path, notEnv>>

TrialNext == trial_begin \/ trial_tick \/ trial_decide

SpecTrial == TrialInit /\ [][TrialNext]_vars

---------------------------------------------------------------------------
(* Claims about the search of pathfind, checked under SpecPlan *)

\* pathfind runs in the thread of its caller until it returns: weak fairness
\* of PlanNext, which is enabled exactly while the call is in its loop
SpecPlanFair == PlanInit /\ [][PlanNext]_vars /\ ([]<>(search.phase # "loop") \/ []<><<PlanNext>>_vars)

\* the node the next iteration polls, the state its neighbours are updated
\* from, and the neighbours
Polled == poll(search.st.open_nodes_queue, search.st.traversal_costs, Goal)
Expanding == search.phase = "loop" /\ Searching(search.st) /\ Polled # Goal
Base ==
    [search.st EXCEPT !.open_nodes_queue = Remove(@, Polled),
                      !.close_nodes_list = Append(@, Polled)]
Neighbours == get_neighbours(map, Polled)

\* the calls _update_vertex(.., a, b, w) of an iteration that polled a, in
\* the order they are made: <<state before, a, b, state after>>
RECURSIVE VertexCallsFrom(_, _, _)
VertexCallsFrom(st, a, neighbours) ==
    IF neighbours = <<>> THEN <<>>
    ELSE LET b == Head(neighbours)
             after == update_vertex(map, st, a, b, call.width_val)
         IN  IF InList(b, st.close_nodes_list)
             THEN VertexCallsFrom(st, a, Tail(neighbours))
             ELSE <<<<st, a, b, after>>>> \o VertexCallsFrom(after, a, Tail(neighbours))

VertexCalls ==
    LET calls == VertexCallsFrom(Base, Polled, Neighbours)
    IN  {calls[k] : k \in 1 .. Len(calls)}

Occurrences(x, list) == Cardinality({i \in 1 .. Len(list) : list[i] = x})

\* b has been given the parent new_parent in state after
Relinked(before, after, new_parent, b) ==
    /\ after.parent = [before.parent EXCEPT ![b] = new_parent]
    /\ after.traversal_costs =
          [before.traversal_costs EXCEPT
              ![b] = cost(before.traversal_costs, new_parent, b)]
    /\ Occurrences(b, after.open_nodes_queue) = 1
    /\ \A c \in Cells \ {b} :
          Occurrences(c, after.open_nodes_queue)
              = Occurrences(c, before.open_nodes_queue)

\* C28: a call _update_vertex(a, b) with p the parent of a: without line of
\* sight from a to b nothing changes; with sight from a and from p, b is
\* relinked to p exactly when g(p) + cost(p, b) < g(b), and not to a; with
\* sight from a only, b is relinked to a exactly when g(a) + cost(a, b) <
\* g(b); a relinked b is in the open queue once, and g(b) never grows.
C28_UpdateVertexCases ==
    Expanding =>
        \A c \in VertexCalls :
            LET before == c[1]
                a == c[2]
                b == c[3]
                p == before.parent[a]
                w == call.width_val
                after == c[4]
                g == before.traversal_costs
            IN  /\ after.traversal_costs[b] <= g[b]
                /\ IF ~is_line_of_sight(map, a, b, w) THEN after = before
                   ELSE IF is_line_of_sight(map, p, b, w)
                   THEN IF cost(g, p, b) < g[b]
                        THEN Relinked(before, after, p, b)
                        ELSE after = before
                   ELSE IF cost(g, a, b) < g[b]
                        THEN Relinked(before, after, a, b)
                        ELSE after = before

\* a call relinks b to the parent of a, which is not a, and b was in the
\* open queue already
C28_Witness ==
    /\ Expanding
    /\ \E c \in VertexCalls :
          LET before == c[1]
              a == c[2]
              b == c[3]
              p == before.parent[a]
          IN  /\ p # a
              /\ is_line_of_sight(map, a, b, call.width_val)
              /\ is_line_of_sight(map, p, b, call.width_val)
              /\ cost(before.traversal_costs, p, b) < before.traversal_costs[b]
              /\ InList(b, before.open_nodes_queue)

\* the parents lead from node to the start in at most fuel steps
RECURSIVE ChainReaches(_, _, _, _)
ChainReaches(parent, node, start_pos, fuel) ==
    IF node = start_pos THEN TRUE
    ELSE IF fuel = 0 \/ parent[node] = None THEN FALSE
    ELSE ChainReaches(parent, parent[node], start_pos, fuel - 1)

\* what the search keeps true
SearchBounded ==
    LET st == search.st
    IN  /\ \A c \in Cells : Occurrences(c, st.open_nodes_queue) <= 1
        /\ \A c \in Cells : Occurrences(c, st.close_nodes_list) <= 1
        /\ \A c \in Cells : ~(InList(c, st.open_nodes_queue)
                                /\ InList(c, st.close_nodes_list))
        /\ Len(st.close_nodes_list) + (IF st.found THEN 1 ELSE 0)
              <= GridW * GridH
        /\ \A c \in Cells :
              st.parent[c] # None =>
                  ChainReaches(st.parent, c, start, GridW * GridH)

\* C29: pathfind terminates: a closed cell never comes back into the open
\* queue, the queue never holds a cell twice, the loop polls at most
\* width * height cells, the parents lead from every linked cell (the goal
\* among them) to the start, and the call returns.
C29_PathfindTerminates == [](SearchBounded) /\ <>(search.phase = "done")

\* a search that closed three cells or more has returned a route with a turn
C29_Witness ==
    /\ search.phase = "done"
    /\ Len(search.st.close_nodes_list) >= 3
    /\ call.ret # None /\ Len(call.ret[1]) >= 3

\* C30: in every route pathfind returns, every cell after the first is in
\* the grid and no obstacle, and each cell is in line of sight of the cell
\* before it at the width of the call.
C30_RouteStepsInSight ==
    (search.phase = "done" /\ call.ret # None) =>
        LET route == call.ret[1]
        IN  \A i \in 2 .. Len(route) :
                /\ route[i] \in Cells
                /\ map[route[i]] # OBSTACLE
                /\ is_line_of_sight(map, route[i - 1], route[i], call.width_val)

\* a route of three cells on a grid with an obstacle between start and goal
C30_Witness ==
    /\ search.phase = "done" /\ call.ret # None
    /\ Len(call.ret[1]) = 3
    /\ \E c \in Cells : map[c] = OBSTACLE
    /\ ~is_line_of_sight(map, start, Goal, call.width_val)


---------------------------------------------------------------------------
(* One pathfind_multiple call, an iteration of its while loop at a time    *)
(* (environment.py, lines 617-659), followed by what run_rover_main does   *)
(* with the route get_path returns (gui_handler.py, lines 563-572): the    *)
(* route is translated and the commands are added to the executor.         *)

MultiMaps == {[c \in Cells |-> IF c \in o THEN OBSTACLE ELSE EMPTY] : o \in SUBSET {<<2, 1>>, <<1, 2>>}}
MultiStarts == {<<0, 0>>, <<1, 1>>}
MultiGoals ==
    {<< <<2, 0>>, <<0, 2>>, <<2, 0>> >>, << <<0, 2>>, <<2, 0>> >>,
     << <<2, 2>>, <<2, 0>>, <<2, 0>> >>, << <<0, 0>>, <<1, 1>> >>,
     << <<2, 0>>, <<2, 2>>, <<1, 1>> >>, << <<2, 2>>, <<0, 0>>, <<2, 2>> >>}

\* lines 621-625: the accumulated route, the copy of the goal list, the
\* position; log keeps what each iteration saw and did
MultiInit ==
    /\ map \in MultiMaps
    /\ start \in MultiStarts
    /\ end \in {Some(e) : e \in MultiGoals}
    /\ call \in {[op |-> "pathfind_multiple", width_val |-> w, stage |-> "loop",
                  full_path |-> <<>>, temp_end_nodes |-> end[1],
                  cur_node |-> start, log |-> <<>>,
                  raised |-> FALSE, ret |-> None,
                  cmds |-> None, zero_division |-> FALSE] : w \in Widths}
    /\ rover = None /\ path = None /\ start_dir = 0 /\ end_dir = 0
    /\ command_queue = <<>> /\ current_command = None /\ vehicle = None
    /\ hist = HistInit
    /\ PlanIdle /\ ThreadIdle

\* one iteration of the while loop (lines 627-657)
multi_step ==
    /\ call.op = "pathfind_multiple" /\ call.stage = "loop"
    /\ Len(call.temp_end_nodes) > 0
    /\ LET cur_end_node == NearestGoal(call.cur_node, call.temp_end_nodes)
           new_tmp_nodes == SelectSeq(call.temp_end_nodes,
                                      LAMBDA e : e # cur_end_node)
           cur_path == pathfind(map, call.cur_node, cur_end_node, call.width_val)
           full_path == AppendPath(call.full_path, cur_path.route)
           seen == [cur_node |-> call.cur_node,
                    temp_end_nodes |-> call.temp_end_nodes,
                    cur_end_node |-> cur_end_node,
                    cur_path |-> cur_path.route,
                    full_before |-> call.full_path]
       IN  call' = IF cur_path.raised
                   THEN [call EXCEPT !.stage = "done", !.raised = TRUE]
                   ELSE [call EXCEPT !.full_path = full_path,
                                     !.temp_end_nodes = new_tmp_nodes,
                                     !.cur_node = cur_end_node,
                                     !.log = Append(@, seen)]
    /\ UNCHANGED <<map, start, end, start_dir, end_dir, rover, path, notEnv>>

\* no goal is left: the accumulated route is returned (line 659)
multi_return ==
    /\ call.op = "pathfind_multiple" /\ call.stage = "loop"
    /\ Len(call.temp_end_nodes) = 0
    /\ call' = [call EXCEPT !.stage = "returned", !.ret = Some(call.full_path)]
    /\ UNCHANGED <<map, start, end, start_dir, end_dir, rover, path, notEnv>>

\* create_rover_instructions_from_path(env, path, 0, 0) on the route
\* returned; an empty route raises IndexError (path[0])
multi_translate ==
    /\ call.op = "pathfind_multiple" /\ call.stage = "returned"
    /\ call' = IF call.ret[1] = <<>>
               THEN [call EXCEPT !.stage = "done", !.raised = TRUE]
               ELSE [call EXCEPT
                       !.stage = "add",
                       !.cmds = Some(create_rover_instructions_from_path(
                                         end[1], call.ret[1], 0, 0))]
    /\ UNCHANGED <<map, start, end, start_dir, end_dir, rover, path, notEnv>>

\* the division of add_command (rover_commands.py, line 110) is by zero
DividesByZero(command_type, value, time) ==
    ~TupleValued(command_type) /\ command_type # ROTATE /\ time = 0

\* for cmd in rover_cmds: add_command(cmd[0], cmd[1], cmd[2]).  A division
\* by a zero duration (ZeroDivisionError for a Python float, a warning and
\* nan for a numpy float) ends the model's run.
multi_add ==
    /\ call.op = "pathfind_multiple" /\ call.stage = "add"
    /\ IF hist.added = Len(call.cmds[1])
       THEN /\ call' = [call EXCEPT !.stage = "done"]
            /\ UNCHANGED <<command_queue, hist>>
       ELSE LET cmd == call.cmds[1][hist.added + 1]
            IN  IF DividesByZero(cmd[1], cmd[2], cmd[3])
                THEN /\ call' = [call EXCEPT !.stage = "done",
                                             !.zero_division = TRUE]
                     /\ UNCHANGED <<command_queue, hist>>
                ELSE /\ Enqueue(cmd[1], cmd[2], cmd[3])
                     /\ UNCHANGED call
    /\ UNCHANGED <<map, start, end, start_dir, end_dir, rover, path,
                   current_command, vehicle, planVars, thrVars>>

MultiNext == multi_step \/ multi_return \/ multi_translate \/ multi_add

SpecMulti == MultiInit /\ [][MultiNext]_vars

\* the square of the straight-line distance between two cells
SqDist(a, b) == (b[1] - a[1]) * (b[1] - a[1]) + (b[2] - a[2]) * (b[2] - a[2])

\* what the call held after iteration k of its loop
AfterStep(k) ==
    IF k < Len(call.log)
    THEN [cur_node |-> call.log[k + 1].cur_node,
          temp_end_nodes |-> call.log[k + 1].temp_end_nodes,
          full_path |-> call.log[k + 1].full_before]
    ELSE [cur_node |-> call.cur_node, temp_end_nodes |-> call.temp_end_nodes,
          full_path |-> call.full_path]

\* the elements of list at the positions of K, in their order
SubAt(list, K) ==
    [n \in 1 .. Cardinality(K) |->
        list[CHOOSE i \in K : Cardinality({j \in K : j <= i}) = n]]

\* the accumulated route followed by a planned route, without the waypoints
\* that repeat the cell before them (the cell the route then ends with)
Joined(full_before, cur_path) ==
    LET both == full_before \o cur_path
    IN  SubAt(both, {i \in 1 .. Len(both) :
                        \/ i <= Len(full_before)
                        \/ i = 1
                        \/ both[i] # both[i - 1]})

\* two goals of the list were equally near and nearest
Tie(e) ==
    \E i, j \in 1 .. Len(e.temp_end_nodes) :
        /\ e.temp_end_nodes[i] # e.temp_end_nodes[j]
        /\ e.temp_end_nodes[i] = e.cur_end_node
        /\ SqDist(e.cur_node, e.temp_end_nodes[i])
              = SqDist(e.cur_node, e.temp_end_nodes[j])

\* C31: every iteration of pathfind_multiple picks the remaining goal with
\* the smallest straight-line distance to the current position (the first of
\* the list on a tie), plans from the position to it, takes it (every copy
\* of it) out of the remaining goals and goes on from it; a planned waypoint
\* is appended to the route unless it equals the cell the route ends with;
\* when the call returns each distinct goal was planned to exactly once.
C31_NearestFirstStitching ==
    call.op = "pathfind_multiple" =>
        /\ \A k \in 1 .. Len(call.log) :
              LET e == call.log[k]
                  goals == e.temp_end_nodes
                  after == AfterStep(k)
              IN  /\ \E i \in 1 .. Len(goals) :
                        /\ goals[i] = e.cur_end_node
                        /\ \A j \in 1 .. Len(goals) :
                              /\ SqDist(e.cur_node, goals[i])
                                    <= SqDist(e.cur_node, goals[j])
                              /\ j < i => SqDist(e.cur_node, goals[i])
                                             < SqDist(e.cur_node, goals[j])
                  /\ \/ e.cur_path = <<>>
                     \/ /\ e.cur_path[1] = e.cur_node
                        /\ e.cur_path[Len(e.cur_path)] = e.cur_end_node
                  /\ after.temp_end_nodes
                        = SelectSeq(goals, LAMBDA g : g # e.cur_end_node)
                  /\ after.cur_node = e.cur_end_node
                  /\ after.full_path = Joined(e.full_before, e.cur_path)
        /\ \A k, l \in 1 .. Len(call.log) :
              call.log[k].cur_end_node = call.log[l].cur_end_node => k = l
        /\ call.ret # None =>
              /\ {call.log[k].cur_end_node : k \in 1 .. Len(call.log)}
                    = {end[1][i] : i \in 1 .. Len(end[1])}
              /\ call.ret = Some(call.full_path)

\* a call returned after a tie between two goals, a goal that was in the
\* list twice, and a planned route whose first waypoint was the last cell
\* of the accumulated route
C31_Witness ==
    /\ call.op = "pathfind_multiple" /\ call.ret # None
    /\ \E k \in 1 .. Len(call.log) : Tie(call.log[k])
    /\ \E k \in 1 .. Len(call.log) :
          Len(AfterStep(k).temp_end_nodes) < Len(call.log[k].temp_end_nodes) - 1
    /\ \E k \in 1 .. Len(call.log) :
          /\ call.log[k].cur_path # <<>>
          /\ Len(AfterStep(k).full_path)
                < Len(call.log[k].full_before) + Len(call.log[k].cur_path)


---------------------------------------------------------------------------
(* The order of turning and advancing in a tick, checked under SpecMotor   *)

\* the position a tick would give if it advanced by distance along heading
Along(veh, heading, distance) ==
    LET d == NearVector2d(heading)
    IN  <<veh.x + TDiv(distance * d[1], 1000), veh.y + TDiv(distance * d[2], 1000)>>

\* C32: a motor_move tick first turns the heading by the angle of the wheel
\* speeds and then advances the position by the tick's distance along the
\* new heading, not along the heading before the turn; wheel speeds that are
\* equal and opposite leave the position where it was.
C32_HeadingBeforePosition ==
    call.op = "motor_move" =>
        LET before == call.before[1]
            s == call.speeds
            n == IF call.noise = None THEN <<0, 0>> ELSE call.noise[1]
            distance == TickDistance(s[1], s[2])
        IN  /\ vehicle.direction
                  = before.direction + angle_from_motor_speed(s[1] + n[1], s[2] + n[2])
            /\ <<vehicle.x, vehicle.y>> = Along(before, vehicle.direction, distance)
            /\ s[1] = -s[2] => (vehicle.x = before.x /\ vehicle.y = before.y)

\* a tick on an arc ended at another position than the heading before the
\* turn leads to
C32_Witness ==
    /\ call.op = "motor_move"
    /\ call.speeds = <<500, 300>>
    /\ vehicle.direction # call.before[1].direction
    /\ <<vehicle.x, vehicle.y>>
          # Along(call.before[1], call.before[1].direction,
                  TickDistance(call.speeds[1], call.speeds[2]))


---------------------------------------------------------------------------
(* MINE commands in the executor (rover_commands.py, lines 116-152)        *)

\* what add_command is called with: the MINE of the translator (line 340),
\* a MINE of one and a half ticks, and commands that drive the vehicle
MineInputs == {<<MINE, 0, MineTime>>, <<MINE, 0, 1500>>,
               <<MOVE, 2000, 1000>>, <<RPMS, <<500, 500>>, 2000>>}

MineNext ==
    \/ \E c \in MineInputs : add_command(c[1], c[2], c[3])
    \/ update

SpecMine == CmdInit /\ [][MineNext]_vars

MineCurrent == current_command # None /\ current_command[1].type = MINE

\* C33: while a MINE command is current the vehicle stays where it was and
\* keeps its heading, and a tick only takes the tick period off the time the
\* command has left; the command is current for the ticks of the duration it
\* was issued with (a started tick counts as a tick), and the tick after its
\* time has run out discards it as it does any command: the next command of
\* the queue becomes current, or none.
C33_MineOnlyTakesTime ==
    /\ [](MineCurrent =>
            LET cur == current_command[1]
            IN  /\ vehicle = hist.origin[1]
                /\ cur.value = 0
                /\ cur.time = hist.left[cur.id]
                /\ cur.time > -TIME_BETWEEN_MOVEMENTS
                /\ cur.time <= hist.asked[cur.id][3] - TIME_BETWEEN_MOVEMENTS)
    /\ [][(MineCurrent /\ current_command[1].time > 0
              /\ hist'.added = hist.added) =>
            /\ current_command'
                  = Some([current_command[1] EXCEPT
                            !.time = @ - TIME_BETWEEN_MOVEMENTS])
            /\ vehicle' = vehicle
            /\ command_queue' = command_queue]_vars
    /\ [][(MineCurrent /\ current_command[1].time <= 0
              /\ hist'.added = hist.added) =>
            /\ vehicle' = IF command_queue = <<>> THEN vehicle
                          ELSE apply(vehicle, Head(command_queue))
            /\ current_command'
                  = IF command_queue = <<>> THEN None
                    ELSE Some([Head(command_queue) EXCEPT
                                 !.time = @ - TIME_BETWEEN_MOVEMENTS])]_vars

\* the MINE of the translator has run out after the vehicle was driven off
\* its origin, and another command waits for the next tick
C33_Witness ==
    /\ MineCurrent
    /\ hist.asked[current_command[1].id][3] = MineTime
    /\ current_command[1].time = 0
    /\ vehicle.x # 0
    /\ command_queue # <<>>


---------------------------------------------------------------------------
(* The route of get_path and the commands made of it, checked under        *)
(* SpecMulti                                                               *)

\* C34: the route pathfind_multiple returns to get_path never holds a cell
\* twice in a row, whatever goals are unreachable or repeated; every MOVE
\* translated from it has a distance and a duration above zero, and no
\* add_command of the command list divides by a zero duration.
C34_NoRepeatedCellNoZeroMove ==
    call.op = "pathfind_multiple" =>
        /\ Proper(call.full_path)
        /\ call.ret # None => Proper(call.ret[1])
        /\ call.cmds # None =>
              \A k \in 1 .. Len(call.cmds[1]) :
                  LET cmd == call.cmds[1][k]
                  IN  /\ cmd[1] = MOVE => (cmd[2] > 0 /\ cmd[3] > 0)
                      /\ ~DividesByZero(cmd[1], cmd[2], cmd[3])
        /\ ~call.zero_division
        /\ \A k \in 1 .. Len(command_queue) : command_queue[k].time > 0

\* every command of a route of four cells was added; the goal list held a
\* goal twice or a goal no route was found to
C34_Witness ==
    /\ call.op = "pathfind_multiple" /\ call.stage = "done"
    /\ call.cmds # None /\ hist.added = Len(call.cmds[1])
    /\ Len(call.ret[1]) >= 4
    /\ \/ \E k \in 1 .. Len(call.log) : call.log[k].cur_path = <<>>
       \/ Len(call.log) < Len(end[1])


---------------------------------------------------------------------------
(* What a planning call leaves alone, checked under SpecEnv                *)

\* C35: a get_path call that plans changes the cached route and nothing
\* else of the environment: the tiles, the start cell, the goal list with
\* its order, the two headings and the bound vehicle are after the call what
\* they were before it.
C35_PlanningChangesOnlyCache ==
    [][(IsGetPath(call') /\ call'.planned) =>
          /\ map' = map
          /\ start' = start
          /\ end' = end
          /\ start_dir' = start_dir /\ end_dir' = end_dir
          /\ rover' = rover
          /\ path = None /\ path' = call'.ret ]_vars

\* a route of three cells or more was planned for two goals on a grid with
\* an obstacle, with the headings set and a vehicle bound
C35_Witness ==
    /\ IsGetPath(call) /\ call.planned
    /\ \E c \in Cells : map[c] = OBSTACLE
    /\ Len(end[1]) = 2 /\ end[1][1] # end[1][2]
    /\ start_dir = 1 /\ end_dir = 1
    /\ rover \in Rovers
    /\ Len(path[1]) >= 3


---------------------------------------------------------------------------
(* The failure counter and the decision of a width, checked under          *)
(* SpecTrial                                                               *)

TrialsOver == call.stage \in {"done", "returned", "rejected"}

---------------------------------------------------------------------------
(* The parents of the search, checked under SpecPlan                       *)

\* in state st a cell has a cost below infinity exactly when it has a
\* parent, and every parent is the start or a closed cell
ParentsClosed(st) ==
    \A c \in Cells :
        /\ (st.traversal_costs[c] < Inf) <=> (st.parent[c] # None)
        /\ st.parent[c] # None =>
              (st.parent[c] = start \/ InList(st.parent[c], st.close_nodes_list))

\* C37: throughout pathfind a cell has a finite cost exactly when its parent
\* is set, and the parent of such a cell is the start or a cell of the
\* closed list; so the two cells _update_vertex hands to the line-of-sight
\* test are never the same cell: the neighbour is neither the polled node
\* nor the parent of the polled node.
C37_ParentsClosedNoSelfSight ==
    /\ ParentsClosed(search.st)
    /\ Expanding =>
          \A c \in VertexCalls :
              /\ c[2] # c[3]
              /\ c[1].parent[c[2]] # None
              /\ c[1].parent[c[2]] # c[3]
              /\ ~InList(c[3], c[1].close_nodes_list)
              /\ ParentsClosed(c[4])

\* an iteration is about to link a neighbour of the polled node to the
\* parent of the polled node, a closed cell that is not the polled node
C37_Witness ==
    /\ Expanding
    /\ Len(search.st.close_nodes_list) >= 2
    /\ \E c \in VertexCalls :
          /\ c[1].parent[c[2]] # c[2]
          /\ c[1].parent[c[3]] # c[1].parent[c[2]]
          /\ c[4].parent[c[3]] = c[1].parent[c[2]]

====
